---- MODULE Spec2Model ----
(***************************************************************************)
(* Request execution pipeline of node-superops.                            *)
(*                                                                         *)
(* Part 1: the sliding-window RateLimiter of src/rate-limiter.ts, driven   *)
(* by one call chain (waitIfNeeded -> recordRequest, as GraphQLClient      *)
(* .rawRequest does) that may also call recordRequest directly (as the     *)
(* retry attempts of GraphQLClient.execute and the unit tests do).         *)
(*                                                                         *)
(* Numbers.  Date.now() is an integer count of milliseconds.  The          *)
(* fractional quantities of getDelayMs (usedRatio, throttleThreshold,      *)
(* throttleRatio) are exact rationals <<numerator, denominator>>; the      *)
(* configurations enumerated in RateLimitConfigs are those for which the   *)
(* IEEE-754 double operations of the source give the same comparison and   *)
(* the same Math.floor as the exact value (dyadic thresholds over          *)
(* power-of-two maxRequests, and the 10 / 0.8 configuration of the unit    *)
(* tests).                                                                 *)
(*                                                                         *)
(* Part 2: retryWithBackoff of src/rate-limiter.ts, called with a          *)
(* configuration and an operation whose every invocation either resolves   *)
(* or rejects.  Each part has its own specification; the variables of the  *)
(* other parts keep one fixed value in it.                                 *)
(*                                                                         *)
(* Part 3: GraphQLClient.execute of src/graphql-client.ts, which calls     *)
(* the limiter of part 1 and runs retryWithBackoff of part 2 over          *)
(* executeRequest (recordRequest, the transport call, handleError).        *)
(*                                                                         *)
(* Part 4: the cursor pagination of src/pagination.ts: the item iterator   *)
(* of createCursorPaginatedIterator and the page iterator of               *)
(* createPageIterator, driven by next() calls against a fetcher whose      *)
(* pages are chosen freely; and collectAll and take of the same file, run   *)
(* one after the other against one source of pages.                        *)
(*                                                                         *)
(* Part 5: several call chains sharing the limiter of part 1.              *)
(*                                                                         *)
(* Part 6: createErrorFromGraphQL of src/errors.ts as a function of the    *)
(* error list it is given.                                                 *)
(***************************************************************************)
EXTENDS Integers, Sequences, FiniteSets, TLC

VARIABLES
    config,       \* RateLimiter.config (read-only after construction)
    requests,     \* RateLimiter.requests: timestamps, oldest first
    now,          \* Date.now()
    pc,           \* call chain: "idle", "sleeping" (inside sleep()), "ready"
    wakeAt,       \* due time of the setTimeout of sleep()
    branch,       \* branch of getDelayMs that produced the pending sleep
    calls,        \* history: number of recordRequest() calls so far
    firstAt,      \* history: Date.now() of the first recordRequest(), or -1
    lastAt,       \* history: Date.now() of the last recordRequest(), or -1
    wasReset,     \* history: reset() has been called
    disciplined   \* history: every recordRequest() so far came after a
                  \* completed waitIfNeeded() whose timer fired exactly on time

limiterVars == <<config, requests, now, pc, wakeAt, branch, calls, firstAt,
                 lastAt, wasReset, disciplined>>

VARIABLES
    rcfg,         \* retryWithBackoff: the `config` argument
    rpc,          \* position: "call", "pending", "backoff", "done" ("off":
                  \* retryWithBackoff is not running)
    attempt,      \* the loop variable `attempt`
    lastError,    \* the local `lastError`
    result,       \* how the returned promise settled
    invocations,  \* history: number of fn() calls
    outcomes,     \* history: how each fn() call settled, in order
    waits         \* history: <<delay, jitter>> of each backoff wait, in order

retryVars == <<rcfg, rpc, attempt, lastError, result, invocations, outcomes,
               waits>>

VARIABLES
    events,       \* GraphQLClient.execute, history: the calls it made, in
                  \* order: "wait" (rateLimiter.waitIfNeeded), "record"
                  \* (rateLimiter.recordRequest), "transport" (client.request);
                  \* those of a rawRequest() call start with "rawRequest"
    retryDue      \* GraphQLClient.execute: due time of the backoff timer

execVars == <<events, retryDue>>

VARIABLES
    mode,           \* "item": createCursorPaginatedIterator, "page":
                    \* createPageIterator, "off": no iterator exists
    options,        \* PaginationOptions: pageSize, maxItems
    currentItems,   \* the items of the page fetched last
    currentIndex,   \* how many of them were yielded (0-based next index)
    totalReturned,  \* items yielded so far
    hasMore,        \* pageInfo.hasNextPage of the page fetched last
    endCursor,      \* pageInfo.endCursor of the page fetched last
    fetchCalls,     \* history: the params of the fetcher calls so far
    pages,          \* history: the connections the fetcher resolved with
    results,        \* history: the values yielded so far, in order
    doneSeen,       \* history: a next() call has returned done: true
    extraNext,      \* history: next() calls made after the first done: true
    thrown          \* history: the next() calls that rejected: which
                    \* fetcher call failed, with what, and what next() threw

pageVars == <<mode, options, currentItems, currentIndex, totalReturned,
              hasMore, endCursor, fetchCalls, pages, results, doneSeen,
              extraNext, thrown>>

VARIABLES
    phase,          \* collectAll and take on one source: "collectAll",
                    \* "take", "end"; "off" when not run
    source,         \* the pages the fetcher serves, call by call
    takeCount,      \* the count passed to take()
    takeOptions,    \* the options passed to take()
    collected       \* what collectAll() returned

takeVars == <<phase, source, takeCount, takeOptions, collected>>

VARIABLES
    chainPc,        \* several call chains on one RateLimiter: where each
                    \* is: "idle", "sleeping" (inside waitIfNeeded), "ready"
    chainWakeAt,    \* due time of the sleep() timer of each chain
    recorded,       \* history: the instants of the recordRequest() calls
    waited          \* history: every recordRequest() so far was called by
                    \* a chain whose own waitIfNeeded() had just resolved

sharedVars == <<chainPc, chainWakeAt, recorded, waited>>

VARIABLES
    gqlErrors,      \* createErrorFromGraphQL: its argument, the
                    \* extensions.code of each error of the list
    classified      \* createErrorFromGraphQL: the error it returned

classifyVars == <<gqlErrors, classified>>

VARIABLES
    passes,         \* history: one entry per `for await` / toArray() pass
                    \* over one iterable: what had been reached when the
                    \* pass called [Symbol.asyncIterator]()
    inPass          \* a pass is running

passVars == <<passes, inPass>>

vars == <<limiterVars, retryVars, execVars, pageVars, takeVars, sharedVars,
          classifyVars, passVars>>

\* the variables a part leaves alone
nonLimiterVars ==
    <<retryVars, execVars, pageVars, takeVars, sharedVars, classifyVars,
      passVars>>
nonRetryVars ==
    <<limiterVars, execVars, pageVars, takeVars, sharedVars, classifyVars,
      passVars>>
nonExecuteVars == <<pageVars, takeVars, sharedVars, classifyVars, passVars>>
nonPageVars ==
    <<limiterVars, retryVars, execVars, takeVars, sharedVars, classifyVars,
      passVars>>
nonTakeVars ==
    <<limiterVars, retryVars, execVars, sharedVars, classifyVars, passVars>>
nonSharedVars ==
    <<retryVars, execVars, pageVars, takeVars, classifyVars, passVars>>
nonClassifyVars ==
    <<limiterVars, retryVars, execVars, pageVars, takeVars, sharedVars,
      passVars>>
nonPassVars ==
    <<limiterVars, retryVars, execVars, sharedVars, classifyVars>>

----------------------------------------------------------------------------
(* Values *)

\* `undefined`, for an optional number and for `lastError`
Undefined == -1

NoError == [kind |-> "none", id |-> 0]

NoResult == [status |-> "pending", value |-> NoError]

\* retryWithBackoff is not running
RetryOff ==
    /\ rcfg = [maxRetries |-> 0, baseDelayMs |-> 0, maxDelayMs |-> Undefined,
               shouldRetry |-> "undefined"]
    /\ rpc = "off"
    /\ attempt = 0
    /\ lastError = NoError
    /\ result = NoResult
    /\ invocations = 0
    /\ outcomes = <<>>
    /\ waits = <<>>

\* GraphQLClient.execute is not running
ExecOff ==
    /\ events = <<>>
    /\ retryDue = 0

\* no paginated iterator exists
PageOff ==
    /\ mode = "off"
    /\ options = [pageSize |-> Undefined, maxItems |-> Undefined]
    /\ currentItems = <<>>
    /\ currentIndex = 0
    /\ totalReturned = 0
    /\ hasMore = TRUE
    /\ endCursor = Undefined
    /\ fetchCalls = <<>>
    /\ pages = <<>>
    /\ results = <<>>
    /\ doneSeen = FALSE
    /\ extraNext = 0
    /\ thrown = <<>>

\* collectAll and take are not run
TakeOff ==
    /\ phase = "off"
    /\ source = <<>>
    /\ takeCount = 0
    /\ takeOptions = [pageSize |-> Undefined, maxItems |-> Undefined]
    /\ collected = <<>>

\* no further call chains use the limiter
SharedOff ==
    /\ chainPc = <<>>
    /\ chainWakeAt = <<>>
    /\ recorded = <<>>
    /\ waited = TRUE

\* no pass over an iterable is made
PassOff ==
    /\ passes = <<>>
    /\ inPass = FALSE

\* the error SuperOpsError class and code of no error
NotClassified == [class |-> "none", code |-> "none"]

\* createErrorFromGraphQL is not called
ClassifyOff ==
    /\ gqlErrors = <<>>
    /\ classified = NotClassified

----------------------------------------------------------------------------
(* Bounds *)

MaxTime == 5      \* the clock stops advancing here
MaxTick == 2      \* largest single advance of the clock
MaxOver == 1      \* recordRequest() calls allowed beyond maxRequests
MaxLate == 1      \* how late (ms) the timer of sleep() may fire
MaxRetries == 3   \* largest maxRetries passed to retryWithBackoff
JitterSteps == 2  \* Math.random() takes the values 0/JitterSteps, ...

----------------------------------------------------------------------------
(* Exact rationals <<n, d>> with d > 0 *)

Rat(n, d) == <<n, d>>

RatSub(a, b) == <<a[1] * b[2] - b[1] * a[2], a[2] * b[2]>>

RatDiv(a, b) == <<a[1] * b[2], a[2] * b[1]>>

RatMulInt(a, k) == <<a[1] * k, a[2]>>

RatGeq(a, b) == a[1] * b[2] >= b[1] * a[2]

\* Math.floor
RatFloor(a) == a[1] \div a[2]

Max(a, b) == IF a >= b THEN a ELSE b

----------------------------------------------------------------------------
(* Configurations *)

\* the configuration of the unit tests, with the window and the retry delay
\* scaled to the clock range of the model
TestConfig(e) ==
    [enabled |-> e, maxRequests |-> 10, windowMs |-> 3,
     throttleThreshold |-> Rat(4, 5), retryAfterMs |-> 4]

RateLimitConfigs ==
    { [enabled |-> e, maxRequests |-> m, windowMs |-> w,
       throttleThreshold |-> t, retryAfterMs |-> r] :
         e \in BOOLEAN, m \in {1, 2, 4}, w \in {2, 3},
         t \in {Rat(1, 2), Rat(3, 4), Rat(1, 1)}, r \in {0, 4} }
    \cup { TestConfig(e) : e \in BOOLEAN }

----------------------------------------------------------------------------
(* RateLimiter: the methods as functions of the timestamp array and clock *)

\* mutant: `if` in place of `while`, at most one stale timestamp is dropped
pruneOldRequestsOnce(reqs, t) ==
    IF Len(reqs) > 0 /\ Head(reqs) < t - config.windowMs
    THEN Tail(reqs)
    ELSE reqs

RECURSIVE pruneOldRequestsInclusive(_, _)
\* mutant: `<=` in place of `<`, a timestamp on the window's edge is dropped
pruneOldRequestsInclusive(reqs, t) ==
    IF Len(reqs) > 0 /\ Head(reqs) <= t - config.windowMs
    THEN pruneOldRequestsInclusive(Tail(reqs), t)
    ELSE reqs

RECURSIVE pruneOldRequests(_, _)
pruneOldRequests(reqs, t) ==
    IF Len(reqs) > 0 /\ Head(reqs) < t - config.windowMs
    THEN pruneOldRequests(Tail(reqs), t)
    ELSE reqs

\* the array as a getter leaves it at time t
Pruned(t) == pruneOldRequests(requests, t)

currentCountAt(t) == Len(Pruned(t))

currentCount == currentCountAt(now)

\* mutant: the Math.max(0, ...) clamp is missing
remainingNoClamp == config.maxRequests - currentCount

remaining == Max(0, config.maxRequests - currentCount)

\* mutant: `>` in place of `>=`
isThrottlingAtStrict(t) ==
    IF ~config.enabled THEN FALSE
    ELSE LET ratio == Rat(currentCountAt(t), config.maxRequests)
         IN  ~RatGeq(config.throttleThreshold, ratio)

isThrottlingAt(t) ==
    IF ~config.enabled THEN FALSE
    ELSE LET ratio == Rat(currentCountAt(t), config.maxRequests)
         IN  RatGeq(ratio, config.throttleThreshold)

isThrottling == isThrottlingAt(now)

\* mutant: `>` in place of `>=`
isLimitedAtStrict(t) ==
    IF ~config.enabled THEN FALSE
    ELSE currentCountAt(t) > config.maxRequests

isLimitedAt(t) ==
    IF ~config.enabled THEN FALSE
    ELSE currentCountAt(t) >= config.maxRequests

isLimited == isLimitedAt(now)

\* which return statement of getDelayMs is taken
delayBranch ==
    IF ~config.enabled THEN "disabled"
    ELSE IF ~isThrottling THEN "none"
    ELSE IF isLimited /\ Len(Pruned(now)) > 0 THEN "limited"
    ELSE "throttle"

\* mutant: the subtraction of waitTime is the wrong way round
limitedDelayFlipped ==
    LET oldestRequest == Head(Pruned(now))
        expireTime == oldestRequest + config.windowMs
        waitTime == now - expireTime
    IN  Max(0, waitTime)

limitedDelay ==
    LET oldestRequest == Head(Pruned(now))
        expireTime == oldestRequest + config.windowMs
        waitTime == expireTime - now
    IN  Max(0, waitTime)

\* mutant: the scale runs from the limit down to the threshold
throttleDelayInverted ==
    LET usedRatio == Rat(currentCount, config.maxRequests)
        throttleRatio ==
            RatDiv(RatSub(Rat(1, 1), usedRatio),
                   RatSub(Rat(1, 1), config.throttleThreshold))
    IN  RatFloor(RatMulInt(throttleRatio, config.retryAfterMs))

\* mutant: throttleThreshold is not subtracted from usedRatio
throttleDelayNoOffset ==
    LET usedRatio == Rat(currentCount, config.maxRequests)
        throttleRatio ==
            RatDiv(usedRatio, RatSub(Rat(1, 1), config.throttleThreshold))
    IN  RatFloor(RatMulInt(throttleRatio, config.retryAfterMs))

throttleDelay ==
    LET usedRatio == Rat(currentCount, config.maxRequests)
        throttleRatio ==
            RatDiv(RatSub(usedRatio, config.throttleThreshold),
                   RatSub(Rat(1, 1), config.throttleThreshold))
    IN  RatFloor(RatMulInt(throttleRatio, config.retryAfterMs))

getDelayMs ==
    CASE delayBranch = "disabled" -> 0
      [] delayBranch = "none"     -> 0
      [] delayBranch = "limited"  -> limitedDelay
      [] delayBranch = "throttle" -> throttleDelay

----------------------------------------------------------------------------
(* Operations *)

LimiterInit ==
    /\ config \in RateLimitConfigs
    /\ requests = <<>>
    /\ now = 0
    /\ pc = "idle"
    /\ wakeAt = 0
    /\ branch = "none"
    /\ calls = 0
    /\ firstAt = -1
    /\ lastAt = -1
    /\ wasReset = FALSE
    /\ disciplined = TRUE

\* mutant: the `enabled` guard of recordRequest() is missing
recordRequestAlways ==
    /\ pc \in {"idle", "ready"}
    /\ calls < config.maxRequests + MaxOver
    /\ requests' = Append(Pruned(now), now)
    /\ calls' = calls + 1
    /\ firstAt' = IF firstAt = -1 THEN now ELSE firstAt
    /\ lastAt' = now
    /\ disciplined' = (disciplined /\ pc = "ready")
    /\ pc' = "idle"
    /\ UNCHANGED <<config, now, wakeAt, branch, wasReset>>

\* mutant: requests.unshift(now) in place of requests.push(now)
recordRequestUnshift ==
    /\ pc \in {"idle", "ready"}
    /\ calls < config.maxRequests + MaxOver
    /\ requests' = IF ~config.enabled THEN requests
                   ELSE <<now>> \o Pruned(now)
    /\ calls' = calls + 1
    /\ firstAt' = IF firstAt = -1 THEN now ELSE firstAt
    /\ lastAt' = now
    /\ disciplined' = (disciplined /\ pc = "ready")
    /\ pc' = "idle"
    /\ UNCHANGED <<config, now, wakeAt, branch, wasReset>>

\* recordRequest(), called by the chain either right after a completed
\* waitIfNeeded() (pc = "ready") or on its own (pc = "idle")
recordRequest ==
    /\ pc \in {"idle", "ready"}
    /\ calls < config.maxRequests + MaxOver
    /\ requests' = IF ~config.enabled THEN requests
                   ELSE Append(Pruned(now), now)
    /\ calls' = calls + 1
    /\ firstAt' = IF firstAt = -1 THEN now ELSE firstAt
    /\ lastAt' = now
    /\ disciplined' = (disciplined /\ pc = "ready")
    /\ pc' = "idle"
    /\ UNCHANGED <<config, now, wakeAt, branch, wasReset>>

\* mutant: waitIfNeeded() takes the slot it has found free
waitIfNeededReserving ==
    /\ pc = "idle"
    /\ LET delay == getDelayMs
       IN  /\ requests' = IF ~config.enabled THEN requests
                          ELSE IF delay > 0 THEN Pruned(now)
                          ELSE Append(Pruned(now), now)
           /\ IF delay > 0
              THEN /\ pc' = "sleeping"
                   /\ wakeAt' = now + delay
                   /\ branch' = delayBranch
              ELSE /\ pc' = "ready"
                   /\ UNCHANGED <<wakeAt, branch>>
    /\ UNCHANGED <<config, now, calls, firstAt, lastAt, wasReset, disciplined>>

\* waitIfNeeded() up to its await: getDelayMs(), then sleep(delay) if positive
waitIfNeeded ==
    /\ pc = "idle"
    /\ LET delay == getDelayMs
       IN  /\ requests' = IF ~config.enabled THEN requests ELSE Pruned(now)
           /\ IF delay > 0
              THEN /\ pc' = "sleeping"
                   /\ wakeAt' = now + delay
                   /\ branch' = delayBranch
              ELSE /\ pc' = "ready"
                   /\ UNCHANGED <<wakeAt, branch>>
    /\ UNCHANGED <<config, now, calls, firstAt, lastAt, wasReset, disciplined>>

\* the setTimeout of sleep() fires and waitIfNeeded() resolves
sleepResolve ==
    /\ pc = "sleeping"
    /\ now >= wakeAt
    /\ pc' = "ready"
    /\ branch' = "none"
    /\ disciplined' = (disciplined /\ now = wakeAt)
    /\ UNCHANGED <<config, requests, now, wakeAt, calls, firstAt, lastAt,
                   wasReset>>

\* mutant: requests.shift() in place of requests.length = 0
resetShift ==
    /\ requests' = IF Len(requests) > 0 THEN Tail(requests) ELSE requests
    /\ wasReset' = TRUE
    /\ UNCHANGED <<config, now, pc, wakeAt, branch, calls, firstAt, lastAt,
                   disciplined>>

reset ==
    /\ requests' = <<>>
    /\ wasReset' = TRUE
    /\ UNCHANGED <<config, now, pc, wakeAt, branch, calls, firstAt, lastAt,
                   disciplined>>

\* getStatus(): reads every getter; the only effect is the pruning they do
getStatus ==
    /\ requests' = Pruned(now)
    /\ UNCHANGED <<config, now, pc, wakeAt, branch, calls, firstAt, lastAt,
                   wasReset, disciplined>>

\* the clock advances; a pending timer fires at most MaxLate ms late
Tick ==
    \E d \in 1..MaxTick :
        /\ now + d <= MaxTime
        /\ pc = "sleeping" => now + d <= wakeAt + MaxLate
        /\ now' = now + d
        /\ UNCHANGED <<config, requests, pc, wakeAt, branch, calls, firstAt,
                       lastAt, wasReset, disciplined>>

LimiterNext ==
    \/ recordRequest /\ UNCHANGED nonLimiterVars
    \/ waitIfNeeded /\ UNCHANGED nonLimiterVars
    \/ sleepResolve /\ UNCHANGED nonLimiterVars
    \/ reset /\ UNCHANGED nonLimiterVars
    \/ getStatus /\ UNCHANGED nonLimiterVars
    \/ Tick /\ UNCHANGED nonLimiterVars

LimiterStart ==
    /\ LimiterInit /\ RetryOff /\ ExecOff /\ PageOff /\ TakeOff /\ SharedOff
    /\ ClassifyOff
    /\ PassOff

SpecLimiter == LimiterStart /\ [][LimiterNext]_vars

----------------------------------------------------------------------------
(* Rate limiter claims *)

thNum == config.throttleThreshold[1]
thDen == config.throttleThreshold[2]

\* C1: on an enabled limiter with maxRequests >= 1 whose every
\* recordRequest() came after a completed waitIfNeeded() that slept exactly
\* getDelayMs(), currentCount never exceeds maxRequests.
C1_RateCap ==
    (config.enabled /\ config.maxRequests >= 1 /\ disciplined)
        => currentCount <= config.maxRequests

\* C2: when getDelayMs() took the limited branch and returned d, then once
\* exactly d ms have elapsed with no further recordRequest(), isLimited is
\* false.
C2_LimitedDelayFreesRoom ==
    (pc = "sleeping" /\ branch = "limited" /\ now = wakeAt) => ~isLimited

\* C3: on an enabled limiter that was never reset, after N recordRequest()
\* calls, observed while less than windowMs has passed since the first of
\* them, currentCount is N and remaining is max(0, maxRequests - N), never
\* negative.
C3_WindowCount ==
    (config.enabled /\ ~wasReset /\ (calls = 0 \/ now - firstAt < config.windowMs))
        => /\ currentCount = calls
           /\ remaining = (IF calls >= config.maxRequests THEN 0
                           ELSE config.maxRequests - calls)
           /\ remaining >= 0

C3_Witness ==
    /\ config.enabled /\ ~wasReset
    /\ calls > config.maxRequests
    /\ lastAt > firstAt
    /\ now - firstAt < config.windowMs

\* C4: once more than windowMs has passed since the last recordRequest(),
\* currentCount is 0, however many requests were recorded before.
C4_WindowExpiry ==
    (lastAt >= 0 /\ now - lastAt > config.windowMs) => currentCount = 0

C4_Witness ==
    /\ config.enabled /\ ~wasReset
    /\ calls >= 2 /\ Len(requests) >= 2
    /\ now - lastAt > config.windowMs

\* C5: on an enabled limiter isThrottling holds exactly when
\* currentCount / maxRequests >= throttleThreshold and isLimited exactly when
\* currentCount >= maxRequests; with maxRequests = 10 and
\* throttleThreshold = 0.8 isThrottling holds exactly from count 8 on and
\* isLimited exactly from count 10 on.
C5_ThresholdPredicates ==
    config.enabled =>
        /\ isThrottling <=> (currentCount * thDen >= thNum * config.maxRequests)
        /\ isLimited <=> (currentCount >= config.maxRequests)
        /\ (config.maxRequests = 10 /\ thNum = 4 /\ thDen = 5) =>
              /\ isThrottling <=> (currentCount \in 8..(10 + MaxOver))
              /\ isLimited <=> (currentCount \in 10..(10 + MaxOver))

C5_Witness ==
    /\ config.enabled
    /\ config.maxRequests = 10 /\ thNum = 4 /\ thDen = 5
    /\ currentCount = 8
    /\ isThrottling /\ ~isLimited

\* C6: on a disabled limiter, after any sequence of operations, the
\* timestamp array is empty, currentCount is 0, isThrottling and isLimited
\* are false, getDelayMs() is 0 and waitIfNeeded() never suspends.
C6_Disabled ==
    ~config.enabled =>
        /\ requests = <<>>
        /\ currentCount = 0
        /\ ~isThrottling
        /\ ~isLimited
        /\ getDelayMs = 0
        /\ pc # "sleeping"

C6_Witness ==
    /\ ~config.enabled
    /\ calls >= 2
    /\ wasReset
    /\ pc = "ready"

\* C7 (as stated): from the throttle-threshold count up to maxRequests,
\* getDelayMs() does not decrease when currentCount increases.
C7_DelayMonotone ==
    [][(/\ config.enabled
        /\ isThrottling /\ isThrottling'
        /\ currentCount' > currentCount
        /\ currentCount' <= config.maxRequests)
          => getDelayMs' >= getDelayMs]_vars

\* C7 (amended): from the throttle-threshold count up to maxRequests - 1
\* (throttling but not limited), getDelayMs() does not decrease when
\* currentCount increases.
C7_DelayMonotoneBelowLimit ==
    [][(/\ config.enabled
        /\ isThrottling /\ isThrottling'
        /\ currentCount' > currentCount
        /\ currentCount' < config.maxRequests)
          => getDelayMs' >= getDelayMs]_vars

C7_Witness ==
    /\ config.enabled
    /\ isThrottling /\ ~isLimited
    /\ lastAt = now
    /\ getDelayMs > 0

\* the linear scale of getDelayMs in integer arithmetic:
\* floor((c/max - th) / (1 - th) * retryAfterMs)
ScaledDelay ==
    ((currentCount * thDen - thNum * config.maxRequests) * config.retryAfterMs)
        \div ((thDen - thNum) * config.maxRequests)

\* C8 (as stated): on an enabled limiter getDelayMs() is 0 when not
\* throttling; when throttling but not limited it is
\* floor(((currentCount/maxRequests - throttleThreshold) /
\* (1 - throttleThreshold)) * retryAfterMs), with 0 <= delay < retryAfterMs.
C8_ThrottleDelayValue ==
    config.enabled =>
        /\ ~isThrottling => getDelayMs = 0
        /\ (isThrottling /\ ~isLimited) =>
              /\ getDelayMs = ScaledDelay
              /\ 0 <= getDelayMs
              /\ getDelayMs < config.retryAfterMs

\* C8 (amended): as C8, with 0 <= delay < retryAfterMs when
\* retryAfterMs >= 1 and delay = 0 when retryAfterMs = 0.
C8_ThrottleDelayValueAmended ==
    config.enabled =>
        /\ ~isThrottling => getDelayMs = 0
        /\ (isThrottling /\ ~isLimited) =>
              /\ getDelayMs = ScaledDelay
              /\ 0 <= getDelayMs
              /\ IF config.retryAfterMs >= 1
                 THEN getDelayMs < config.retryAfterMs
                 ELSE getDelayMs = 0

C8_Witness ==
    /\ config.enabled
    /\ isThrottling /\ ~isLimited
    /\ config.retryAfterMs >= 1
    /\ getDelayMs >= 1
    /\ pc = "sleeping" /\ branch = "throttle"

C10_Reset ==
    [][reset =>
         /\ requests' = <<>>
         /\ currentCount' = 0
         /\ remaining' = config.maxRequests
         /\ ~isThrottling'
         /\ ~isLimited'
         /\ getDelayMs' = 0
         /\ config' = config]_vars

C10_Witness ==
    /\ config.enabled
    /\ wasReset
    /\ calls >= config.maxRequests
    /\ lastAt = now
    /\ requests = <<>>

----------------------------------------------------------------------------
(* retryWithBackoff *)

Min(a, b) == IF a <= b THEN a ELSE b

RECURSIVE Pow2(_)
\* Math.pow(2, n)
Pow2(n) == IF n = 0 THEN 1 ELSE 2 * Pow2(n - 1)

\* the limiter is constructed and never used
LimiterOff ==
    /\ config = TestConfig(TRUE)
    /\ requests = <<>>
    /\ now = 0
    /\ pc = "idle"
    /\ wakeAt = 0
    /\ branch = "none"
    /\ calls = 0
    /\ firstAt = -1
    /\ lastAt = -1
    /\ wasReset = FALSE
    /\ disciplined = TRUE

\* RetryConfig: maxDelayMs and shouldRetry are optional; shouldRetry is one
\* of: not given, () => true, () => false, (e) => e is a transient failure
RetryConfigs ==
    [maxRetries : 0..MaxRetries,
     baseDelayMs : {0, 10, 40000},
     maxDelayMs : {Undefined, 0, 20},
     shouldRetry : {"undefined", "always", "never", "byKind"}]

\* the ways one fn() call can settle: a value, or one of two kinds of failure
SettleKinds == {"value", "transient", "fatal"}

\* the value or the Error object produced by the n-th fn() call
Settled(kind, n) ==
    [status |-> IF kind = "value" THEN "resolved" ELSE "rejected",
     value |-> [kind |-> kind, id |-> n]]

\* mutant: network failures and timeouts are retried too
executeShouldRetryNetwork(error) ==
    error.kind \in {"rateLimit", "server", "network", "timeout"}

\* the shouldRetry that GraphQLClient.execute passes: `error instanceof
\* SuperOpsRateLimitError || error instanceof SuperOpsServerError`; the
\* error classes extend SuperOpsError directly, so the class decides
executeShouldRetry(error) ==
    error.kind \in {"rateLimit", "server"}

\* config.shouldRetry(error), for a shouldRetry that is given
shouldRetryCall(error) ==
    CASE rcfg.shouldRetry = "always" -> TRUE
      [] rcfg.shouldRetry = "never"  -> FALSE
      [] rcfg.shouldRetry = "byKind" -> error.kind = "transient"
      [] rcfg.shouldRetry = "byClass" -> executeShouldRetry(error)

\* mutant: the negation of the shouldRetry test is missing
shouldRetryRefusesInverted(error) ==
    rcfg.shouldRetry # "undefined" /\ shouldRetryCall(error)

\* `config.shouldRetry && !config.shouldRetry(lastError)`
shouldRetryRefuses(error) ==
    rcfg.shouldRetry # "undefined" /\ ~shouldRetryCall(error)

\* mutant: the last-attempt test is missing
isLastAttemptNever(a) == FALSE

\* `attempt === config.maxRetries`
isLastAttempt(a) == a = rcfg.maxRetries

\* mutant: `<` in place of `<=`
loopContinuesStrict(a) == a < rcfg.maxRetries

\* the loop condition `attempt <= config.maxRetries`
loopContinues(a) == a <= rcfg.maxRetries

\* mutant: lastError is only set by the first failure
caughtErrorFirst(previous, error) ==
    IF previous = NoError THEN error ELSE previous

\* `lastError = error as Error`
caughtError(previous, error) == error

\* `config.maxDelayMs || 60000`
maxDelayOrDefault ==
    IF rcfg.maxDelayMs = Undefined \/ rcfg.maxDelayMs = 0 THEN 60000
    ELSE rcfg.maxDelayMs

\* mutant: the Math.min cap is missing
backoffDelayNoCap(a) == rcfg.baseDelayMs * Pow2(a)

\* Math.min(config.baseDelayMs * Math.pow(2, attempt), config.maxDelayMs || 60000)
backoffDelay(a) == Min(rcfg.baseDelayMs * Pow2(a), maxDelayOrDefault)

\* Math.random() * delay * 0.1, with Math.random() = j / JitterSteps
jitterOf(j, delay) == Rat(j * delay, JitterSteps * 10)

RetryInit ==
    /\ rcfg \in RetryConfigs
    /\ rpc = "call"
    /\ attempt = 0
    /\ lastError = NoError
    /\ result = NoResult
    /\ invocations = 0
    /\ outcomes = <<>>
    /\ waits = <<>>

\* `fn()` is called and its promise awaited
retryCall ==
    /\ rpc = "call"
    /\ invocations' = invocations + 1
    /\ rpc' = "pending"
    /\ UNCHANGED <<rcfg, attempt, lastError, result, outcomes, waits>>

\* the promise of fn() settles: `return`, or the catch block up to its
\* `throw` or its await of the backoff timer
settleAs(kind, j) ==
    /\ rpc = "pending"
    /\ LET o == Settled(kind, invocations)
           e == caughtError(lastError, o.value)
       IN  /\ outcomes' = Append(outcomes, o)
           /\ IF kind = "value"
              THEN /\ result' = o
                   /\ rpc' = "done"
                   /\ UNCHANGED <<lastError, waits>>
              ELSE /\ lastError' = e
                   /\ IF shouldRetryRefuses(e) \/ isLastAttempt(attempt)
                      THEN /\ result' = [status |-> "rejected", value |-> e]
                           /\ rpc' = "done"
                           /\ UNCHANGED waits
                      ELSE /\ waits' = Append(waits,
                                 <<backoffDelay(attempt),
                                   jitterOf(j, backoffDelay(attempt))>>)
                           /\ rpc' = "backoff"
                           /\ UNCHANGED result
    /\ UNCHANGED <<rcfg, attempt, invocations>>

\* mutant: `await fn()` without `return`, a success falls through to the
\* next loop iteration
retrySettleNoReturn ==
    /\ rpc = "pending"
    /\ \E kind \in SettleKinds :
         LET o == Settled(kind, invocations)
         IN  /\ outcomes' = Append(outcomes, o)
             /\ IF kind = "value"
                THEN /\ rpc' = IF attempt < rcfg.maxRetries THEN "backoff"
                               ELSE "done"
                     /\ result' = IF attempt < rcfg.maxRetries THEN result
                                  ELSE [status |-> "rejected",
                                        value |-> lastError]
                     /\ UNCHANGED lastError
                ELSE /\ lastError' = o.value
                     /\ rpc' = "done"
                     /\ result' = [status |-> "rejected", value |-> o.value]
    /\ UNCHANGED <<rcfg, attempt, invocations, waits>>

\* an operation that resolves or rejects at will
retrySettle ==
    \E kind \in SettleKinds, j \in 0..(JitterSteps - 1) : settleAs(kind, j)

\* the backoff timer fires: `attempt++`, the loop condition, and the
\* `throw lastError` after the loop
retryResume ==
    /\ rpc = "backoff"
    /\ attempt' = attempt + 1
    /\ IF loopContinues(attempt + 1)
       THEN /\ rpc' = "call"
            /\ UNCHANGED result
       ELSE /\ rpc' = "done"
            /\ result' = [status |-> "rejected", value |-> lastError]
    /\ UNCHANGED <<rcfg, lastError, invocations, outcomes, waits>>

RetryNext ==
    \/ retryCall /\ UNCHANGED nonRetryVars
    \/ retrySettle /\ UNCHANGED nonRetryVars
    \/ retryResume /\ UNCHANGED nonRetryVars

RetryStart ==
    /\ LimiterOff /\ RetryInit /\ ExecOff /\ PageOff /\ TakeOff /\ SharedOff
    /\ ClassifyOff
    /\ PassOff

SpecRetry == RetryStart /\ [][RetryNext]_vars

----------------------------------------------------------------------------
(* Retry claims *)

\* shouldRetry accepts the failure (or is not given)
Accepted(error) ==
    \/ rcfg.shouldRetry \in {"undefined", "always"}
    \/ rcfg.shouldRetry = "byKind" /\ error.kind = "transient"

AllRejected == \A i \in 1..Len(outcomes) : outcomes[i].status = "rejected"

\* C11: retryWithBackoff invokes the operation at most maxRetries + 1 times,
\* and exactly maxRetries + 1 times when it has finished and every attempt
\* failed with a failure shouldRetry accepts.
C11_AttemptBound ==
    /\ invocations <= rcfg.maxRetries + 1
    /\ (/\ rpc = "done"
        /\ AllRejected
        /\ \A i \in 1..Len(outcomes) : Accepted(outcomes[i].value))
          => invocations = rcfg.maxRetries + 1

C11_Witness ==
    /\ rpc = "done"
    /\ rcfg.maxRetries = 1
    /\ rcfg.shouldRetry = "always"
    /\ AllRejected
    /\ invocations = 2

\* C12: a success is the last invocation: after k accepted failures and then
\* a success (k <= maxRetries) retryWithBackoff has resolved with that value,
\* the operation was invoked exactly k + 1 times, and it is not invoked again.
C12_StopsOnSuccess ==
    \A i \in 1..Len(outcomes) :
        outcomes[i].status = "resolved" =>
            /\ i = Len(outcomes)
            /\ rpc = "done"
            /\ result = outcomes[i]
            /\ result.value.id = i
            /\ invocations = i
            /\ i - 1 <= rcfg.maxRetries
            /\ \A k \in 1..(i - 1) :
                  /\ outcomes[k].status = "rejected"
                  /\ Accepted(outcomes[k].value)

C12_Witness ==
    /\ rpc = "done"
    /\ rcfg.maxRetries = 3
    /\ result.status = "resolved"
    /\ invocations = 2
    /\ Len(waits) = 1

\* C13: a failure that shouldRetry refuses is the last invocation:
\* retryWithBackoff has rejected with that failure, with no backoff wait after
\* it, however many retries remain; if it is the failure of the first attempt
\* the operation was invoked exactly once.
C13_NonRetryable ==
    \A i \in 1..Len(outcomes) :
        (outcomes[i].status = "rejected" /\ ~Accepted(outcomes[i].value)) =>
            /\ i = Len(outcomes)
            /\ rpc = "done"
            /\ result = outcomes[i]
            /\ Len(waits) = i - 1
            /\ invocations = i

C13_Witness ==
    /\ rpc = "done"
    /\ rcfg.maxRetries = 3
    /\ rcfg.shouldRetry = "never"
    /\ result.status = "rejected"
    /\ invocations = 1
    /\ waits = <<>>

\* C14: when all maxRetries + 1 attempts failed, retryWithBackoff rejects
\* with the very failure of the final attempt.
C14_LastFailure ==
    (rpc = "done" /\ AllRejected /\ Len(outcomes) = rcfg.maxRetries + 1) =>
        /\ result.status = "rejected"
        /\ result.value = outcomes[Len(outcomes)].value
        /\ result.value.id = rcfg.maxRetries + 1

C14_Witness ==
    /\ rpc = "done"
    /\ rcfg.maxRetries = 2
    /\ Len(outcomes) = 3
    /\ AllRejected
    /\ outcomes[1].value.kind = "transient"
    /\ outcomes[3].value.kind = "fatal"
    /\ result.value.kind = "fatal"

\* a < b, a <= b for a rational a and an integer ratio p/q (q > 0)
RatLess(a, p, q) == a[1] * q < p * a[2]

\* C15 (as stated): the wait after failed attempt a is delay + jitter with
\* delay = min(baseDelayMs * 2^a, maxDelayMs) (60000 when maxDelayMs is not
\* given) and 0 <= jitter < 0.1 * delay; the delays are non-decreasing and no
\* wait reaches 1.1 * maxDelayMs.
C15_BackoffSchedule ==
    \A n \in 1..Len(waits) :
        LET a == n - 1
            delay == waits[n][1]
            jitter == waits[n][2]
            cap == IF rcfg.maxDelayMs = Undefined THEN 60000
                   ELSE rcfg.maxDelayMs
        IN  /\ delay = Min(rcfg.baseDelayMs * 2^a, cap)
            /\ jitter[1] >= 0
            /\ RatLess(jitter, delay, 10)
            /\ n > 1 => waits[n - 1][1] <= delay
            /\ RatLess(<<delay * jitter[2] + jitter[1], jitter[2]>>,
                       11 * cap, 10)

\* C15 (amended): as C15, where a maxDelayMs of 0 counts as not given (the
\* cap is then 60000), and where the jitter is 0 when the delay is 0.
C15_BackoffScheduleAmended ==
    \A n \in 1..Len(waits) :
        LET a == n - 1
            delay == waits[n][1]
            jitter == waits[n][2]
            cap == IF rcfg.maxDelayMs \in {Undefined, 0} THEN 60000
                   ELSE rcfg.maxDelayMs
        IN  /\ delay = Min(rcfg.baseDelayMs * 2^a, cap)
            /\ jitter[1] >= 0
            /\ IF delay > 0 THEN RatLess(jitter, delay, 10)
               ELSE jitter[1] = 0
            /\ n > 1 => waits[n - 1][1] <= delay
            /\ RatLess(<<delay * jitter[2] + jitter[1], jitter[2]>>,
                       11 * cap, 10)

C15_Witness ==
    /\ Len(waits) = 3
    /\ waits[1][1] = 10
    /\ waits[2][1] = 20
    /\ waits[3][1] = 20
    /\ waits[3][2][1] > 0

----------------------------------------------------------------------------
(* GraphQLClient.execute: the limiter, the transport and the retry policy  *)

\* rate limiter configurations small enough for several attempts and their
\* backoff waits to fit into the clock range
ExecuteConfigs ==
    { [enabled |-> TRUE, maxRequests |-> 1, windowMs |-> 2,
       throttleThreshold |-> Rat(1, 2), retryAfterMs |-> r] : r \in {0, 1} }
    \cup { [enabled |-> FALSE, maxRequests |-> 3, windowMs |-> 2,
            throttleThreshold |-> Rat(1, 2), retryAfterMs |-> 0] }

\* errors[0].extensions.code of a GraphQL error response; "absent" is an
\* error without extensions.code, "OTHER" any code the switch does not list,
\* "" the empty string
GraphQLCodes ==
    {"UNAUTHENTICATED", "UNAUTHORIZED", "FORBIDDEN", "NOT_FOUND",
     "BAD_USER_INPUT", "VALIDATION_ERROR", "RATE_LIMITED",
     "INTERNAL_SERVER_ERROR", "GRAPHQL_PARSE_FAILED",
     "GRAPHQL_VALIDATION_FAILED", "OTHER", "absent", ""}

\* what client.request() can reject with: response.errors (the codes of the
\* errors), error.code and response.status (Undefined when absent)
RawFailures ==
    { [errors |-> <<c>>, code |-> "none", status |-> Undefined] :
        c \in GraphQLCodes }
    \cup { [errors |-> <<"NOT_FOUND", "RATE_LIMITED">>, code |-> "none",
            status |-> 500],
           [errors |-> <<"BAD_USER_INPUT">>, code |-> "ECONNREFUSED",
            status |-> 429] }
    \cup { [errors |-> <<>>, code |-> k, status |-> st] :
        k \in {"ECONNREFUSED", "ENOTFOUND", "ETIMEDOUT", "TIMEOUT"},
        st \in {Undefined, 429} }
    \cup { [errors |-> <<>>, code |-> "none", status |-> st] :
        st \in {Undefined, 0, 400, 429, 500, 503} }

\* mutant: the last error of the list decides
primaryErrorLast(errors) ==
    errors[Len(errors)]

\* `const primaryError = errors[0]`
primaryError(errors) ==
    errors[1]

\* `primaryError.extensions?.code || 'UNKNOWN'`
primaryCode(errors) ==
    IF primaryError(errors) \in {"absent", ""} THEN "UNKNOWN"
    ELSE primaryError(errors)

\* createErrorFromGraphQL(errors): the class of the error it constructs and
\* the code that error carries; "unknown" is the base class SuperOpsError
createErrorFromGraphQL(errors) ==
    IF Len(errors) = 0 THEN [class |-> "unknown", code |-> "UNKNOWN"]
    ELSE LET code == primaryCode(errors)
         IN  CASE code \in {"UNAUTHENTICATED", "UNAUTHORIZED", "FORBIDDEN"}
                    -> [class |-> "authentication",
                        code |-> "AUTHENTICATION_ERROR"]
               [] code = "NOT_FOUND"
                    -> [class |-> "notFound", code |-> "NOT_FOUND"]
               [] code \in {"BAD_USER_INPUT", "VALIDATION_ERROR"}
                    -> [class |-> "validation", code |-> "VALIDATION_ERROR"]
               [] code = "RATE_LIMITED"
                    -> [class |-> "rateLimit", code |-> "RATE_LIMITED"]
               [] code \in {"INTERNAL_SERVER_ERROR", "GRAPHQL_PARSE_FAILED",
                            "GRAPHQL_VALIDATION_FAILED"}
                    -> [class |-> "server", code |-> "SERVER_ERROR"]
               [] OTHER -> [class |-> "unknown", code |-> code]

\* handleError(error): the class of the error that executeRequest throws
handleError(raw) ==
    IF Len(raw.errors) > 0 THEN createErrorFromGraphQL(raw.errors).class
    ELSE IF raw.code \in {"ECONNREFUSED", "ENOTFOUND"} THEN "network"
    ELSE IF raw.code \in {"ETIMEDOUT", "TIMEOUT"} THEN "timeout"
    ELSE IF raw.status # Undefined /\ raw.status # 0 /\ raw.status = 429
         THEN "rateLimit"
    ELSE IF raw.status # Undefined /\ raw.status # 0 /\ raw.status >= 500
         THEN "server"
    ELSE "unknown"

\* the classes of SuperOpsError that handleError can produce
ErrorClasses ==
    {"authentication", "notFound", "validation", "rateLimit", "server",
     "network", "timeout", "unknown"}

\* a client is constructed; no operation has been executed yet
ExecuteInit ==
    /\ config \in ExecuteConfigs
    /\ requests = <<>>
    /\ now = 0
    /\ pc = "idle"
    /\ wakeAt = 0
    /\ branch = "none"
    /\ calls = 0
    /\ firstAt = -1
    /\ lastAt = -1
    /\ wasReset = FALSE
    /\ disciplined = TRUE
    /\ \E m \in 0..MaxRetries :
         rcfg = [maxRetries |-> m, baseDelayMs |-> config.retryAfterMs,
                 maxDelayMs |-> 60000, shouldRetry |-> "byClass"]
    /\ rpc = "off"
    /\ attempt = 0
    /\ lastError = NoError
    /\ result = NoResult
    /\ invocations = 0
    /\ outcomes = <<>>
    /\ waits = <<>>
    /\ events = <<>>
    /\ retryDue = 0
    /\ PageOff
    /\ TakeOff
    /\ SharedOff
    /\ ClassifyOff
    /\ PassOff

\* execute() is entered: `await this.rateLimiter.waitIfNeeded()`
executeBegin ==
    /\ rpc \in {"off", "done"}
    /\ waitIfNeeded
    /\ rpc' = "wait"
    /\ attempt' = 0
    /\ lastError' = NoError
    /\ result' = NoResult
    /\ invocations' = 0
    /\ outcomes' = <<>>
    /\ waits' = <<>>
    /\ events' = <<"wait">>
    /\ UNCHANGED <<rcfg, retryDue>>

\* the sleep of that waitIfNeeded() ends
executeWaitResolve ==
    /\ rpc = "wait"
    /\ sleepResolve
    /\ UNCHANGED <<retryVars, execVars>>

\* mutant: recordRequest() is called once per execute(), not once per
\* attempt
executeRequestRecordOnce ==
    /\ \/ rpc = "wait" /\ pc = "ready"
       \/ rpc = "call"
    /\ IF rpc = "wait"
       THEN /\ recordRequest
            /\ events' = events \o <<"record", "transport">>
       ELSE /\ events' = events \o <<"transport">>
            /\ UNCHANGED limiterVars
    /\ invocations' = invocations + 1
    /\ rpc' = "pending"
    /\ UNCHANGED <<rcfg, attempt, lastError, result, outcomes, waits,
                   retryDue>>

\* executeRequest(), called by retryWithBackoff: recordRequest(), then
\* client.request() is started
executeRequest ==
    /\ \/ rpc = "wait" /\ pc = "ready"
       \/ rpc = "call"
    /\ recordRequest
    /\ invocations' = invocations + 1
    /\ rpc' = "pending"
    /\ events' = events \o <<"record", "transport">>
    /\ UNCHANGED <<rcfg, attempt, lastError, result, outcomes, waits,
                   retryDue>>

\* client.request() settles; a rejection goes through handleError and then
\* through the catch block of retryWithBackoff, whose timer is set
executeSettle ==
    /\ \E j \in 0..(JitterSteps - 1) :
         \/ settleAs("value", j)
         \/ \E raw \in RawFailures : settleAs(handleError(raw), j)
    /\ retryDue' = IF rpc' = "backoff"
                   THEN LET w == waits'[Len(waits')]
                        IN  now + w[1] + RatFloor(w[2])
                   ELSE retryDue
    /\ UNCHANGED <<limiterVars, events>>

\* the backoff timer fires
executeResume ==
    /\ now >= retryDue
    /\ retryResume
    /\ UNCHANGED <<limiterVars, execVars>>

\* getStatus() of the client's limiter
executeGetStatus ==
    /\ getStatus
    /\ UNCHANGED <<retryVars, execVars>>

\* the clock advances; the backoff timer fires at most MaxLate ms late
executeTick ==
    /\ Tick
    /\ rpc = "backoff" => now' <= retryDue + MaxLate
    /\ UNCHANGED <<retryVars, execVars>>

ExecuteNext ==
    \/ executeBegin /\ UNCHANGED nonExecuteVars
    \/ executeWaitResolve /\ UNCHANGED nonExecuteVars
    \/ executeRequest /\ UNCHANGED nonExecuteVars
    \/ executeSettle /\ UNCHANGED nonExecuteVars
    \/ executeResume /\ UNCHANGED nonExecuteVars
    \/ executeGetStatus /\ UNCHANGED nonExecuteVars
    \/ executeTick /\ UNCHANGED nonExecuteVars

SpecExecute == ExecuteInit /\ [][ExecuteNext]_vars

----------------------------------------------------------------------------
(* Claims about GraphQLClient.execute *)

\* the number of client.request() calls of the current execute()
transportCount == Cardinality({k \in 1..Len(events) : events[k] = "transport"})

\* C16: execute retries only failures classified as rate-limited or server
\* errors: every failure that was followed by another attempt is of one of
\* these two classes, and a failure of any other class ends the call, is
\* what the caller receives, and, when it is the first failure, leaves
\* exactly one transport invocation, whatever maxRetries is.
C16_RetrySelection ==
    rpc \notin {"off", "wait"} =>
        /\ transportCount = invocations
        /\ \A i \in 1..Len(outcomes) :
             /\ outcomes[i].value.kind \in ErrorClasses \cup {"value"}
             /\ i < Len(outcomes) =>
                  outcomes[i].value.kind \in {"rateLimit", "server"}
             /\ outcomes[i].value.kind \in
                    ErrorClasses \ {"rateLimit", "server"} =>
                  /\ i = Len(outcomes)
                  /\ rpc = "done"
                  /\ result = [status |-> "rejected",
                               value |-> outcomes[i].value]
                  /\ waits = [k \in 1..(i - 1) |-> waits[k]]
                  /\ transportCount = i

\* a network failure of the first attempt has ended a call that was allowed
\* MaxRetries retries
C16_Witness ==
    /\ rcfg.maxRetries = MaxRetries
    /\ rpc = "done"
    /\ Len(outcomes) = 1
    /\ outcomes[1].value.kind = "network"
    /\ result.status = "rejected"
    /\ transportCount = 1

\* C17: every transport invocation of execute, the initial attempt and each
\* retry alike, is preceded by its own rateLimiter.waitIfNeeded() and then
\* recordRequest().
C17_PipelineOrdering ==
    \A k \in 1..Len(events) :
        events[k] = "transport" =>
            /\ k >= 3
            /\ events[k - 1] = "record"
            /\ events[k - 2] = "wait"

----------------------------------------------------------------------------
(* Pagination: createCursorPaginatedIterator and createPageIterator *)

MaxPages == 3       \* fetcher calls of one sequence
MaxPageItems == 2   \* largest number of edges in a page
MaxExtraNext == 1   \* next() calls after the first done: true

DEFAULT_PAGE_SIZE == 50

MAX_PAGE_SIZE == 100

\* PaginationOptions; a pageSize or maxItems that is not given is Undefined
PaginationOptions ==
    [pageSize : {Undefined, 0, 10, 100, 500},
     maxItems : {Undefined, 0, 1, 3}]

\* the connections the k-th fetcher call can resolve with: any number of
\* edges (the nodes are numbered, no two alike), any hasNextPage, and an
\* endCursor that is a token of that page or absent
Connections(k) ==
    { [items |-> [i \in 1..n |-> 10 * k + i], hasNextPage |-> h,
       endCursor |-> c] :
        n \in 0..MaxPageItems, h \in BOOLEAN, c \in {Undefined, 100 + k} }

\* mutant: the requested page size is not capped
pageSizeNoClamp ==
    IF options.pageSize \in {Undefined, 0} THEN DEFAULT_PAGE_SIZE
    ELSE options.pageSize

\* `Math.min(options.pageSize || DEFAULT_PAGE_SIZE, MAX_PAGE_SIZE)`
pageSize ==
    Min(IF options.pageSize \in {Undefined, 0} THEN DEFAULT_PAGE_SIZE
        ELSE options.pageSize,
        MAX_PAGE_SIZE)

\* mutant: the maxItems test at the start of next() is missing
maxItemsReachedNever ==
    FALSE

\* mutant: `>` in place of `>=`
maxItemsReachedStrict ==
    options.maxItems # Undefined /\ totalReturned > options.maxItems

\* `maxItems !== undefined && totalReturned >= maxItems`
maxItemsReached ==
    options.maxItems # Undefined /\ totalReturned >= options.maxItems

\* mutant: hasMore is not part of the loop test
needsFetchIgnoringMore(items, index, more) ==
    index >= Len(items)

\* mutant: the next page is fetched one item too early
needsFetchEarly(items, index, more) ==
    index + 1 >= Len(items) /\ more

\* the test of the while loop: `currentIndex >= currentItems.length && hasMore`
needsFetch(items, index, more) ==
    index >= Len(items) /\ more

\* mutant: the cursor is not passed on
fetchParamsNoCursor(cursor) ==
    [first |-> pageSize, after |-> Undefined]

\* the params of a fetcher call: `{ first: pageSize, after: endCursor }`
fetchParams(cursor) ==
    [first |-> pageSize, after |-> cursor]

\* mutant: an empty page does not end the sequence
emptyPageEndsNever(items) ==
    FALSE

\* `currentItems.length === 0` after a fetch: the response is empty
emptyPageEnds(items) ==
    Len(items) = 0

\* a fetcher call is awaited
fetchInFlight == Len(fetchCalls) > Len(pages) + Len(thrown)

\* next() returns { done: true }
returnDone ==
    /\ doneSeen' = TRUE
    /\ UNCHANGED <<totalReturned, results>>

\* the end of next(), with the page `items` and the index `index`: done when
\* the page is used up, or else the next item
finishNext(items, index) ==
    IF index >= Len(items)
    THEN /\ returnDone
         /\ currentIndex' = index
    ELSE /\ results' = Append(results, items[index + 1])
         /\ currentIndex' = index + 1
         /\ totalReturned' = totalReturned + 1
         /\ UNCHANGED doneSeen

\* an iterable is created; its state is that of the closure's `let`s
PageInit ==
    /\ mode \in {"item", "page"}
    /\ options \in PaginationOptions
    /\ currentItems = <<>>
    /\ currentIndex = 0
    /\ totalReturned = 0
    /\ hasMore = TRUE
    /\ endCursor = Undefined
    /\ fetchCalls = <<>>
    /\ pages = <<>>
    /\ results = <<>>
    /\ doneSeen = FALSE
    /\ extraNext = 0
    /\ thrown = <<>>

\* the consumer calls next(); a consumer that has seen done: true (for
\* await and toArray stop there) makes at most MaxExtraNext further calls
nextCalled ==
    /\ ~fetchInFlight
    /\ doneSeen => extraNext < MaxExtraNext
    /\ extraNext' = IF doneSeen THEN extraNext + 1 ELSE extraNext

\* next() of the item iterator, up to its return or its `await fetcher(...)`
iteratorNext ==
    /\ mode = "item"
    /\ nextCalled
    /\ IF maxItemsReached
       THEN /\ returnDone
            /\ UNCHANGED <<currentIndex, fetchCalls>>
       ELSE IF needsFetch(currentItems, currentIndex, hasMore)
       THEN /\ Len(fetchCalls) < MaxPages
            /\ fetchCalls' = Append(fetchCalls, fetchParams(endCursor))
            /\ UNCHANGED <<currentIndex, totalReturned, results, doneSeen>>
       ELSE /\ finishNext(currentItems, currentIndex)
            /\ UNCHANGED fetchCalls
    /\ UNCHANGED <<mode, options, currentItems, hasMore, endCursor, pages,
                   thrown>>

\* the awaited fetcher call resolves with connection: the rest of the loop
\* body, then the loop test again and the end of next()
iteratorFetchedWith(connection) ==
    /\ mode = "item"
    /\ fetchInFlight
    /\ pages' = Append(pages, connection)
    /\ currentItems' = connection.items
    /\ endCursor' = connection.endCursor
    /\ hasMore' = connection.hasNextPage
    /\ IF emptyPageEnds(connection.items)
       THEN /\ returnDone
            /\ currentIndex' = 0
            /\ UNCHANGED fetchCalls
       ELSE IF needsFetch(connection.items, 0, connection.hasNextPage)
       THEN /\ Len(fetchCalls) < MaxPages
            /\ fetchCalls' =
                   Append(fetchCalls, fetchParams(connection.endCursor))
            /\ currentIndex' = 0
            /\ UNCHANGED <<totalReturned, results, doneSeen>>
       ELSE /\ finishNext(connection.items, 0)
            /\ UNCHANGED fetchCalls
    /\ UNCHANGED <<mode, options, extraNext, thrown>>

\* the awaited fetcher call resolves, with any connection
iteratorFetched ==
    \E connection \in Connections(Len(fetchCalls)) :
        iteratorFetchedWith(connection)

\* mutant: the page iterator does not look at hasMore
pageExhaustedNever ==
    FALSE

\* `!hasMore` at the start of next() of the page iterator
pageExhausted ==
    ~hasMore

\* mutant: an empty page is yielded like any other
pageIsEmptyNever(connection) ==
    FALSE

\* `connection.edges.length === 0` in next() of the page iterator
pageIsEmpty(connection) ==
    Len(connection.items) = 0

\* next() of the page iterator, up to its return or its `await fetcher(...)`
pageIteratorNext ==
    /\ mode = "page"
    /\ nextCalled
    /\ IF pageExhausted
       THEN /\ returnDone
            /\ UNCHANGED fetchCalls
       ELSE /\ Len(fetchCalls) < MaxPages
            /\ fetchCalls' = Append(fetchCalls, fetchParams(endCursor))
            /\ UNCHANGED <<totalReturned, results, doneSeen>>
    /\ UNCHANGED <<mode, options, currentItems, currentIndex, hasMore,
                   endCursor, pages, thrown>>

\* the awaited fetcher call of the page iterator resolves with connection
pageIteratorFetchedWith(connection) ==
    /\ mode = "page"
    /\ fetchInFlight
    /\ pages' = Append(pages, connection)
    /\ endCursor' = connection.endCursor
    /\ hasMore' = connection.hasNextPage
    /\ IF pageIsEmpty(connection)
       THEN returnDone
       ELSE /\ results' = Append(results, connection)
            /\ UNCHANGED <<totalReturned, doneSeen>>
    /\ UNCHANGED <<mode, options, currentItems, currentIndex, fetchCalls,
                   extraNext, thrown>>

\* the awaited fetcher call of the page iterator resolves, with any
\* connection
pageIteratorFetched ==
    \E connection \in Connections(Len(fetchCalls)) :
        pageIteratorFetchedWith(connection)

PageNext ==
    \/ iteratorNext /\ UNCHANGED nonPageVars
    \/ iteratorFetched /\ UNCHANGED nonPageVars
    \/ pageIteratorNext /\ UNCHANGED nonPageVars
    \/ pageIteratorFetched /\ UNCHANGED nonPageVars

PageStart ==
    /\ LimiterOff /\ RetryOff /\ ExecOff /\ PageInit /\ TakeOff /\ SharedOff
    /\ ClassifyOff
    /\ PassOff

SpecPage == PageStart /\ [][PageNext]_vars

\* toArray(): `for await` keeps calling next() until it returns done, and
\* every fetcher call resolves
SpecPageLive == PageStart /\ [][PageNext]_vars /\ WF_vars(PageNext)

\* what the k-th fetcher call can reject with
FetchErrors(k) == { [kind |-> c, id |-> k] : c \in {"rateLimit", "network"} }

\* mutant: the failure is wrapped in an error of the iterator
rethrownWrapped(e) ==
    [kind |-> "pagination", id |-> e.id]

\* `await fetcher(...)` is not inside a try: next() rejects with the value
\* the fetcher rejected with
rethrown(e) ==
    e

\* mutant: a failed fetch ends the sequence
nextRejectsEnds ==
    /\ fetchInFlight
    /\ \E e \in FetchErrors(Len(fetchCalls)) :
         thrown' = Append(thrown, [call |-> Len(fetchCalls), rejected |-> e,
                                   error |-> rethrown(e)])
    /\ hasMore' = FALSE
    /\ UNCHANGED <<mode, options, currentItems, currentIndex, totalReturned,
                   endCursor, fetchCalls, pages, results, doneSeen,
                   extraNext>>

\* the awaited fetcher call rejects and next() rejects with it; no variable
\* of the closure is assigned
nextRejects ==
    /\ fetchInFlight
    /\ \E e \in FetchErrors(Len(fetchCalls)) :
         thrown' = Append(thrown, [call |-> Len(fetchCalls), rejected |-> e,
                                   error |-> rethrown(e)])
    /\ UNCHANGED <<mode, options, currentItems, currentIndex, totalReturned,
                   hasMore, endCursor, fetchCalls, pages, results, doneSeen,
                   extraNext>>

\* the fetcher call of the item iterator rejects
iteratorFetchRejected ==
    /\ mode = "item"
    /\ nextRejects

\* the fetcher call of the page iterator rejects
pageIteratorFetchRejected ==
    /\ mode = "page"
    /\ nextRejects

PageFailNext ==
    \/ iteratorNext /\ UNCHANGED nonPageVars
    \/ iteratorFetched /\ UNCHANGED nonPageVars
    \/ iteratorFetchRejected /\ UNCHANGED nonPageVars
    \/ pageIteratorNext /\ UNCHANGED nonPageVars
    \/ pageIteratorFetched /\ UNCHANGED nonPageVars
    \/ pageIteratorFetchRejected /\ UNCHANGED nonPageVars

\* the iterators against a fetcher that can reject
SpecPageFail == PageStart /\ [][PageFailNext]_vars

----------------------------------------------------------------------------
(* Claims about pagination *)

RECURSIVE Flatten(_)
\* the items of a sequence of pages, in page order and then intra-page order
Flatten(pgs) ==
    IF Len(pgs) = 0 THEN <<>>
    ELSE Flatten(SubSeq(pgs, 1, Len(pgs) - 1)) \o pgs[Len(pgs)].items

\* the pages served so far are all non-empty
NonEmptyPages == \A k \in 1..Len(pages) : Len(pages[k].items) > 0

\* the pages served so far are a chain of n >= 1 non-empty pages in which
\* exactly the last has hasNextPage = false
CompleteChain ==
    /\ Len(pages) >= 1
    /\ NonEmptyPages
    /\ \A k \in 1..Len(pages) : pages[k].hasNextPage <=> k < Len(pages)

\* C18: in item mode without maxItems, against a fetcher that serves a chain
\* of n >= 1 non-empty pages of which exactly the last has hasNextPage =
\* false, the iteration does not end before the last page, and once it has
\* ended it has yielded every item of every page exactly once, in page order
\* and then intra-page order, with exactly n fetcher calls.
C18_ItemModeComplete ==
    mode = "item" /\ options.maxItems = Undefined /\ NonEmptyPages =>
        /\ doneSeen => CompleteChain
        /\ CompleteChain =>
             /\ Len(fetchCalls) = Len(pages)
             /\ \E m \in 0..Len(Flatten(pages)) :
                  results = SubSeq(Flatten(pages), 1, m)
             /\ doneSeen => results = Flatten(pages)

\* a chain of MaxPages pages, two of them with MaxPageItems items, has been
\* iterated to its end
C18_Witness ==
    /\ mode = "item"
    /\ options.maxItems = Undefined
    /\ CompleteChain
    /\ Len(pages) = MaxPages
    /\ Len(pages[1].items) = MaxPageItems
    /\ Len(pages[MaxPages].items) = MaxPageItems
    /\ doneSeen
    /\ Len(fetchCalls) = MaxPages
    /\ results = Flatten(pages)

\* C19: in item mode and in page mode, the first fetch of a sequence is
\* issued with after = undefined, the k-th fetch (k >= 2) with after equal to
\* the pageInfo.endCursor of the page returned by fetch k-1, and every fetch
\* with the same value of first.
C19_CursorChaining ==
    mode # "off" =>
        \A k \in 1..Len(fetchCalls) :
            /\ fetchCalls[k].after =
                   IF k = 1 THEN Undefined ELSE pages[k - 1].endCursor
            /\ fetchCalls[k].first = fetchCalls[1].first

\* a third fetch has been issued after a page with a cursor and a page
\* without one
C19_Witness ==
    /\ mode = "page"
    /\ Len(fetchCalls) = 3
    /\ pages[1].endCursor # Undefined
    /\ fetchCalls[2].after = pages[1].endCursor
    /\ pages[2].endCursor = Undefined
    /\ fetchCalls[3].after = Undefined

\* C20: in item mode, a fetched page with zero items ends the sequence at
\* that point, even if its hasNextPage is true: the next() that fetched it
\* returns done, and for a consumer that stops at done (for await, toArray)
\* it is the last fetch and the items yielded are those of the pages before
\* it; an empty first page gives zero items with exactly one fetcher call.
C20_EmptyPageTerminates ==
    mode = "item" =>
        \A k \in 1..Len(pages) :
            Len(pages[k].items) = 0 =>
                /\ doneSeen
                /\ extraNext = 0 =>
                     /\ Len(pages) = k
                     /\ Len(fetchCalls) = k
                     /\ results = Flatten(SubSeq(pages, 1, k - 1))

\* the second page was empty with hasNextPage = true and the iteration ended
C20_Witness ==
    /\ mode = "item"
    /\ Len(pages) = 2
    /\ Len(pages[1].items) > 0
    /\ Len(pages[2].items) = 0
    /\ pages[2].hasNextPage
    /\ doneSeen
    /\ extraNext = 0
    /\ Len(fetchCalls) = 2
    /\ Len(results) = Len(pages[1].items)

\* C21: in item mode with maxItems set, the number of items yielded never
\* exceeds maxItems, the items yielded are the first items of the source in
\* order, and once maxItems items were yielded no fetch is pending and every
\* fetch of the sequence was issued while fewer than maxItems items had been
\* served, whatever hasNextPage of the last page is.
C21_MaxItemsCap ==
    mode = "item" /\ options.maxItems # Undefined =>
        /\ Len(results) <= options.maxItems
        /\ totalReturned = Len(results)
        /\ \E m \in 0..Len(Flatten(pages)) :
             results = SubSeq(Flatten(pages), 1, m)
        /\ Len(results) = options.maxItems =>
             /\ ~fetchInFlight
             /\ \A k \in 1..Len(fetchCalls) :
                  Len(Flatten(SubSeq(pages, 1, k - 1))) < options.maxItems

\* maxItems = 1 against a first page of two items with hasNextPage = true:
\* one item, one fetch, and next() calls after the end
C21_Witness ==
    /\ mode = "item"
    /\ options.maxItems = 1
    /\ Len(pages) = 1
    /\ Len(pages[1].items) = 2
    /\ pages[1].hasNextPage
    /\ results = <<pages[1].items[1]>>
    /\ doneSeen
    /\ extraNext = MaxExtraNext
    /\ Len(fetchCalls) = 1

\* C22 (as stated): every fetcher call is made with first = min(requested
\* pageSize, 100), with 50 used when pageSize is not given; first never
\* exceeds 100.
C22_PageSizeClamp ==
    mode # "off" =>
        \A k \in 1..Len(fetchCalls) :
            /\ fetchCalls[k].first =
                   Min(IF options.pageSize = Undefined THEN 50
                       ELSE options.pageSize, 100)
            /\ fetchCalls[k].first <= 100

\* C22 (amended): every fetcher call is made with first = min(p, 100), where
\* p is the requested pageSize, or 50 when pageSize is not given or is 0;
\* first never exceeds 100, and a pageSize above 100 gives first = 100.
C22_PageSizeClampAmended ==
    mode # "off" =>
        \A k \in 1..Len(fetchCalls) :
            /\ fetchCalls[k].first =
                   Min(IF options.pageSize = Undefined \/ options.pageSize = 0
                       THEN 50 ELSE options.pageSize, 100)
            /\ fetchCalls[k].first <= 100
            /\ options.pageSize > 100 => fetchCalls[k].first = 100

\* pageSize = 500: two fetches, both with first = 100
C22_Witness ==
    /\ mode = "item"
    /\ options.pageSize = 500
    /\ Len(fetchCalls) = 2
    /\ fetchCalls[1].first = 100
    /\ fetchCalls[2].first = 100

\* C23: in item mode and in page mode, once a fetched page has reported
\* hasNextPage = false the fetcher is not called again by that sequence,
\* whatever further next() calls are made: that page is the last fetch; a
\* single non-empty page with hasNextPage = false costs exactly one fetch.
C23_NoFetchAfterLastPage ==
    mode # "off" =>
        \A k \in 1..Len(pages) :
            ~pages[k].hasNextPage =>
                /\ Len(fetchCalls) = k
                /\ ~fetchInFlight

\* page mode: the first page was non-empty with hasNextPage = false, and
\* next() was called MaxExtraNext times after the end
C23_Witness ==
    /\ mode = "page"
    /\ Len(pages) = 1
    /\ Len(pages[1].items) > 0
    /\ ~pages[1].hasNextPage
    /\ doneSeen
    /\ extraNext = MaxExtraNext
    /\ Len(fetchCalls) = 1

\* the non-empty pages among pgs, in order
NonEmpty(pgs) == SelectSeq(pgs, LAMBDA c : Len(c.items) > 0)

\* C24: the page iterator yields each fetched non-empty page whole and
\* unmodified, in fetch order, with one fetcher call per next() that did not
\* find hasMore false, each with {first: pageSize, after: endCursor}; for a
\* consumer that stops at done (for await, toArray) it ends only after a
\* page that reported hasNextPage = false (which was yielded if non-empty)
\* or with a fetched page that is empty (for which nothing is yielded), so
\* an empty first page gives zero pages.
C24_PageMode ==
    mode = "page" =>
        /\ results = NonEmpty(pages)
        /\ \A k \in 1..Len(fetchCalls) :
             fetchCalls[k] =
                 [first |-> pageSize,
                  after |-> IF k = 1 THEN Undefined
                            ELSE pages[k - 1].endCursor]
        /\ (doneSeen /\ extraNext = 0) =>
             /\ Len(pages) >= 1
             /\ \/ ~pages[Len(pages)].hasNextPage
                \/ Len(pages[Len(pages)].items) = 0
        /\ (extraNext = 0 /\ ~fetchInFlight) =>
             /\ Len(fetchCalls) = Len(results) +
                    (IF doneSeen /\ Len(pages[Len(pages)].items) = 0
                     THEN 1 ELSE 0)
             /\ ~doneSeen =>
                  \A k \in 1..(Len(pages) - 1) : pages[k].hasNextPage
        /\ (Len(pages) >= 1 /\ Len(pages[1].items) = 0 /\ extraNext = 0) =>
             /\ doneSeen
             /\ results = <<>>
             /\ Len(fetchCalls) = 1

\* two pages were yielded and an empty third page with hasNextPage = true
\* ended the iteration
C24_Witness ==
    /\ mode = "page"
    /\ Len(pages) = 3
    /\ Len(pages[1].items) = MaxPageItems
    /\ Len(pages[3].items) = 0
    /\ pages[3].hasNextPage
    /\ results = <<pages[1], pages[2]>>
    /\ doneSeen
    /\ extraNext = 0

\* C25: when the fetcher rejects during a next() call, in item mode or in
\* page mode, that next() call rejects with the same value, unmodified; the
\* failed call is the only fetcher call of that next() (no retry, none
\* pending afterwards), and the items yielded before stay yielded.
C25_FailurePropagation ==
    [][thrown' # thrown =>
         /\ Len(thrown') = Len(thrown) + 1
         /\ LET t == thrown'[Len(thrown')]
            IN  /\ t.call = Len(fetchCalls)
                /\ t.rejected \in FetchErrors(t.call)
                /\ t.error = t.rejected
         /\ fetchInFlight
         /\ fetchCalls' = fetchCalls
         /\ ~fetchInFlight'
         /\ results' = results
         /\ doneSeen' = doneSeen]_vars

\* item mode: the first page was yielded from and the second fetch failed
C25_Witness ==
    /\ mode = "item"
    /\ Len(pages) = 1
    /\ Len(results) = MaxPageItems
    /\ Len(fetchCalls) = 2
    /\ Len(thrown) = 1
    /\ thrown[1].call = 2
    /\ thrown[1].error = [kind |-> "network", id |-> 2]
    /\ ~doneSeen

\* a page that ends a chain: it reports hasNextPage = false or is empty
EndsChain(connection) ==
    ~connection.hasNextPage \/ Len(connection.items) = 0

\* C26: against a fetcher backed by a finite chain of pages (some page
\* reports hasNextPage = false or is empty), driving either mode to
\* exhaustion as toArray() and collectAll do eventually completes, and until
\* then the number of fetcher calls is no greater than the number of pages
\* of the chain, the page that ends it included.
C26_CollectAllTerminates ==
    /\ [](mode # "off" =>
            \A k \in 1..Len(pages) :
                (EndsChain(pages[k]) /\ extraNext = 0) => Len(fetchCalls) <= k)
    /\ (mode # "off" /\ \E k \in 1..Len(pages) : EndsChain(pages[k]))
           ~> doneSeen

\* page mode: a chain of MaxPages non-empty pages was collected
C26_Witness ==
    /\ mode = "page"
    /\ Len(pages) = MaxPages
    /\ \A k \in 1..MaxPages : Len(pages[k].items) > 0
    /\ ~pages[MaxPages].hasNextPage
    /\ Len(results) = MaxPages
    /\ Len(fetchCalls) = MaxPages
    /\ doneSeen
    /\ extraNext = 0

----------------------------------------------------------------------------
(* collectAll and take against one deterministic source of pages *)

MaxTake == 5   \* largest count passed to take()

RECURSIVE ChainPrefixes(_)
\* the sequences of n pages that do not end a chain
ChainPrefixes(n) ==
    IF n = 0 THEN {<<>>}
    ELSE { Append(p, c) :
             p \in ChainPrefixes(n - 1),
             c \in { x \in Connections(n) :
                        ~EndsChain(x) /\ x.endCursor # Undefined } }

\* the finite sources: chains of at most MaxPages pages, call k answered with
\* page k, non-empty pages with hasNextPage = true and a cursor up to a last
\* page that is empty or reports hasNextPage = false
FiniteSources ==
    UNION { { Append(p, c) :
                p \in ChainPrefixes(n - 1),
                c \in { x \in Connections(n) : EndsChain(x) } } :
            n \in 1..MaxPages }

\* the options a caller passes to take()
TakeOptions == [pageSize : {Undefined, 10}, maxItems : {Undefined, 1}]

\* mutant: `{ maxItems: count, ...options }`, the caller's maxItems wins
takeArgumentsKeep(opts, count) ==
    IF opts.maxItems # Undefined THEN opts
    ELSE [opts EXCEPT !.maxItems = count]

\* the options take() creates its iterator with: `{ ...options, maxItems:
\* count }`
takeArguments(opts, count) ==
    [opts EXCEPT !.maxItems = count]

\* the state of a newly created item iterator with the options opts
newIterator(opts) ==
    /\ mode' = "item"
    /\ options' = opts
    /\ currentItems' = <<>>
    /\ currentIndex' = 0
    /\ totalReturned' = 0
    /\ hasMore' = TRUE
    /\ endCursor' = Undefined
    /\ fetchCalls' = <<>>
    /\ pages' = <<>>
    /\ results' = <<>>
    /\ doneSeen' = FALSE
    /\ extraNext' = 0
    /\ thrown' = <<>>

\* collectAll(fetcher) has created its iterator and toArray() is entered
TakeInit ==
    /\ phase = "collectAll"
    /\ source \in FiniteSources
    /\ takeCount \in 0..MaxTake
    /\ takeOptions \in TakeOptions
    /\ collected = <<>>
    /\ mode = "item"
    /\ options = [pageSize |-> Undefined, maxItems |-> Undefined]
    /\ currentItems = <<>>
    /\ currentIndex = 0
    /\ totalReturned = 0
    /\ hasMore = TRUE
    /\ endCursor = Undefined
    /\ fetchCalls = <<>>
    /\ pages = <<>>
    /\ results = <<>>
    /\ doneSeen = FALSE
    /\ extraNext = 0
    /\ thrown = <<>>

\* `for await (const item of this)` in toArray(): next() is called until it
\* returns done
toArrayNext ==
    /\ phase \in {"collectAll", "take"}
    /\ ~doneSeen
    /\ iteratorNext
    /\ UNCHANGED takeVars

\* the fetcher answers its k-th call with the k-th page of the source
toArrayFetched ==
    /\ phase \in {"collectAll", "take"}
    /\ iteratorFetched
    /\ pages'[Len(pages')] = source[Len(pages')]
    /\ UNCHANGED takeVars

\* collectAll() returns the array, and take(fetcher, count, options) is
\* called on the same source
collectAllReturns ==
    /\ phase = "collectAll"
    /\ doneSeen
    /\ collected' = results
    /\ phase' = "take"
    /\ newIterator(takeArguments(takeOptions, takeCount))
    /\ UNCHANGED <<source, takeCount, takeOptions>>

\* take() returns the array
takeReturns ==
    /\ phase = "take"
    /\ doneSeen
    /\ phase' = "end"
    /\ UNCHANGED <<source, takeCount, takeOptions, collected, pageVars>>

TakeNext ==
    \/ toArrayNext /\ UNCHANGED nonTakeVars
    \/ toArrayFetched /\ UNCHANGED nonTakeVars
    \/ collectAllReturns /\ UNCHANGED nonTakeVars
    \/ takeReturns /\ UNCHANGED nonTakeVars

TakeStart ==
    /\ LimiterOff /\ RetryOff /\ ExecOff /\ TakeInit /\ SharedOff
    /\ ClassifyOff
    /\ PassOff

SpecTake == TakeStart /\ [][TakeNext]_vars

\* C27: for a finite source of pages and any count N >= 0, take(fetcher, N,
\* options) returns exactly the first min(N, total) items of what
\* collectAll(fetcher) returns, in the same order, whatever maxItems the
\* options passed to take carry.
C27_TakeIsPrefix ==
    phase = "end" =>
        /\ results = SubSeq(collected, 1, Min(takeCount, Len(collected)))
        /\ collected = Flatten(source)

\* take of 3 with maxItems = 1 in its options, from a source of two pages
\* and four items
C27_Witness ==
    /\ phase = "end"
    /\ takeCount = 3
    /\ takeOptions.maxItems = 1
    /\ Len(source) = 2
    /\ Len(collected) = 4
    /\ Len(results) = 3
    /\ Len(fetchCalls) = 2

----------------------------------------------------------------------------
(* Several call chains on one RateLimiter *)

NChains == 2   \* call chains that share the limiter

Chains == 1..NChains

SharedConfigs ==
    { [enabled |-> TRUE, maxRequests |-> m, windowMs |-> 2,
       throttleThreshold |-> t, retryAfterMs |-> r] :
         m \in {1, 2}, t \in {Rat(1, 2), Rat(1, 1)}, r \in {0, 4} }
    \cup { [enabled |-> FALSE, maxRequests |-> 2, windowMs |-> 2,
            throttleThreshold |-> Rat(1, 2), retryAfterMs |-> 4] }

\* one limiter is constructed and every chain is about to use it
SharedInit ==
    /\ config \in SharedConfigs
    /\ requests = <<>>
    /\ now = 0
    /\ pc = "idle"
    /\ wakeAt = 0
    /\ branch = "none"
    /\ calls = 0
    /\ firstAt = -1
    /\ lastAt = -1
    /\ wasReset = FALSE
    /\ disciplined = TRUE
    /\ chainPc = [c \in Chains |-> "idle"]
    /\ chainWakeAt = [c \in Chains |-> 0]
    /\ recorded = <<>>
    /\ waited = TRUE

\* chain c calls waitIfNeeded(): getDelayMs(), which prunes, then sleep(delay)
\* if the delay is positive; the method runs to its await without a break
sharedWaitIfNeeded(c) ==
    /\ chainPc[c] = "idle"
    /\ LET delay == getDelayMs
       IN  /\ requests' = IF ~config.enabled THEN requests ELSE Pruned(now)
           /\ IF delay > 0
              THEN /\ chainPc' = [chainPc EXCEPT ![c] = "sleeping"]
                   /\ chainWakeAt' = [chainWakeAt EXCEPT ![c] = now + delay]
              ELSE /\ chainPc' = [chainPc EXCEPT ![c] = "ready"]
                   /\ UNCHANGED chainWakeAt
    /\ UNCHANGED <<config, now, pc, wakeAt, branch, calls, firstAt, lastAt,
                   wasReset, disciplined, recorded, waited>>

\* the sleep() timer of chain c fires
sharedSleepResolve(c) ==
    /\ chainPc[c] = "sleeping"
    /\ now >= chainWakeAt[c]
    /\ chainPc' = [chainPc EXCEPT ![c] = "ready"]
    /\ UNCHANGED <<limiterVars, chainWakeAt, recorded, waited>>

\* chain c calls recordRequest(), after its waitIfNeeded() or without one
sharedRecordRequest(c) ==
    /\ chainPc[c] \in {"idle", "ready"}
    /\ recordRequest
    /\ chainPc' = [chainPc EXCEPT ![c] = "idle"]
    /\ recorded' = Append(recorded, now)
    /\ waited' = (waited /\ chainPc[c] = "ready")
    /\ UNCHANGED chainWakeAt

\* some chain calls getStatus()
sharedGetStatus ==
    /\ getStatus
    /\ UNCHANGED sharedVars

\* the clock advances; no timer fires more than MaxLate ms late
sharedTick ==
    /\ Tick
    /\ \A c \in Chains :
         chainPc[c] = "sleeping" => now' <= chainWakeAt[c] + MaxLate
    /\ UNCHANGED sharedVars

SharedNext ==
    \/ \E c \in Chains : sharedWaitIfNeeded(c) /\ UNCHANGED nonSharedVars
    \/ \E c \in Chains : sharedSleepResolve(c) /\ UNCHANGED nonSharedVars
    \/ \E c \in Chains : sharedRecordRequest(c) /\ UNCHANGED nonSharedVars
    \/ sharedGetStatus /\ UNCHANGED nonSharedVars
    \/ sharedTick /\ UNCHANGED nonSharedVars

SharedStart ==
    /\ SharedInit /\ RetryOff /\ ExecOff /\ PageOff /\ TakeOff
    /\ ClassifyOff
    /\ PassOff

SpecShared == SharedStart /\ [][SharedNext]_vars

\* C28: when several call chains interleave waitIfNeeded(), recordRequest()
\* and observation calls on one enabled limiter, the timestamp array is the
\* sequence of the recorded instants less a prefix (none lost elsewhere, none
\* duplicated), every instant of that prefix is older than the window, and
\* the tracked count equals the number of recordRequest() calls whose
\* instant is still inside the window.
C28_SharedLimiter ==
    (chainPc # <<>> /\ config.enabled) =>
        /\ \E n \in 0..Len(recorded) :
             /\ requests = SubSeq(recorded, n + 1, Len(recorded))
             /\ \A i \in 1..n : recorded[i] < now - config.windowMs
        /\ currentCount =
               Cardinality({ i \in 1..Len(recorded) :
                               recorded[i] >= now - config.windowMs })

\* one chain sleeps in waitIfNeeded() while the other has recorded a request
\* at this instant, and an older entry was pruned
C28_Witness ==
    /\ config.enabled
    /\ chainPc[1] = "sleeping"
    /\ chainWakeAt[1] > now
    /\ chainPc[2] = "idle"
    /\ lastAt = now
    /\ Len(recorded) = 3
    /\ Len(requests) = 2

----------------------------------------------------------------------------
(* RateLimiter: the timestamp array *)

\* the timestamps are in ascending order, oldest first
Ascending(reqs) ==
    \A i \in 1..Len(reqs) - 1 : reqs[i] <= reqs[i + 1]

\* no timestamp is older than t - windowMs
NoneStale(reqs, t) ==
    \A i \in 1..Len(reqs) : reqs[i] >= t - config.windowMs

\* C30: with a non-decreasing clock, in every reachable state of an enabled
\* limiter the tracked timestamps are sorted ascending, oldest first, and
\* right after any operation that prunes (recordRequest, and the getters
\* called by waitIfNeeded and getStatus) no retained timestamp is older
\* than now - windowMs.
C30_TimestampOrder ==
    /\ [](config.enabled => Ascending(requests))
    /\ [][(config.enabled /\ (recordRequest \/ waitIfNeeded \/ getStatus))
            => NoneStale(requests', now)]_vars

\* some recorded timestamps were pruned as stale and two later ones,
\* recorded at different instants, are retained
C30_Witness ==
    /\ config.enabled /\ ~wasReset
    /\ Len(requests) >= 2
    /\ requests[1] < requests[Len(requests)]
    /\ calls > Len(requests)
    /\ NoneStale(requests, now)

----------------------------------------------------------------------------
(* createErrorFromGraphQL *)

MaxErrors == 2   \* longest error list

\* the error lists: the extensions.code of each error, in order
ErrorLists ==
    UNION { [1..n -> GraphQLCodes] : n \in 0..MaxErrors }

\* a response with this error list has arrived
ClassifyInit ==
    /\ gqlErrors \in ErrorLists
    /\ classified = NotClassified

\* createErrorFromGraphQL(errors, response) is called
classify ==
    /\ classified = NotClassified
    /\ classified' = createErrorFromGraphQL(gqlErrors)
    /\ UNCHANGED gqlErrors

ClassifyNext ==
    \/ classify /\ UNCHANGED nonClassifyVars

ClassifyStart ==
    /\ LimiterOff /\ RetryOff /\ ExecOff /\ PageOff /\ TakeOff /\ SharedOff
    /\ ClassifyInit
    /\ PassOff

SpecClassify == ClassifyStart /\ [][ClassifyNext]_vars

\* the class the claim gives for a listed code
ListedClass(c) ==
    CASE c \in {"UNAUTHENTICATED", "UNAUTHORIZED", "FORBIDDEN"}
           -> "authentication"
      [] c = "NOT_FOUND" -> "notFound"
      [] c \in {"BAD_USER_INPUT", "VALIDATION_ERROR"} -> "validation"
      [] c = "RATE_LIMITED" -> "rateLimit"
      [] c \in {"INTERNAL_SERVER_ERROR", "GRAPHQL_PARSE_FAILED",
                "GRAPHQL_VALIDATION_FAILED"} -> "server"
      [] OTHER -> "unknown"

\* C29 (as stated): createErrorFromGraphQL classifies by the code of the
\* first error only: the listed codes give the authentication, not-found,
\* validation, rate-limit and server errors; any other code gives a generic
\* SuperOpsError carrying that code; an empty list gives a generic error
\* with code UNKNOWN.
C29_Classification ==
    classified # NotClassified =>
        IF Len(gqlErrors) = 0
        THEN classified = [class |-> "unknown", code |-> "UNKNOWN"]
        ELSE /\ classified.class = ListedClass(gqlErrors[1])
             /\ (ListedClass(gqlErrors[1]) = "unknown"
                   /\ gqlErrors[1] # "absent") =>
                  classified.code = gqlErrors[1]

\* C29 (amended): as stated, except that only a non-empty other code is
\* carried by the generic error: a first error without a code, or with the
\* empty string as its code, gives a generic error with code UNKNOWN.
C29_ClassificationAmended ==
    classified # NotClassified =>
        IF Len(gqlErrors) = 0
        THEN classified = [class |-> "unknown", code |-> "UNKNOWN"]
        ELSE /\ classified.class = ListedClass(gqlErrors[1])
             /\ ListedClass(gqlErrors[1]) = "unknown" =>
                  classified.code = IF gqlErrors[1] \in {"absent", ""}
                                    THEN "UNKNOWN" ELSE gqlErrors[1]

\* a list whose first error is FORBIDDEN and whose second is RATE_LIMITED
\* was classified as an authentication error
C29_Witness ==
    /\ gqlErrors = <<"FORBIDDEN", "RATE_LIMITED">>
    /\ classified.class = "authentication"

----------------------------------------------------------------------------
(* Pagination: next() after done: true *)

\* C31: once next() of an item-mode or page-mode iterator has returned
\* done, whatever caused it, every later next() call also returns done and
\* makes no further fetcher call: nothing is fetched and nothing is yielded
\* after the first done.
C31_StickyTermination ==
    [][doneSeen => /\ fetchCalls' = fetchCalls
                   /\ results' = results]_vars

----------------------------------------------------------------------------
(* Several call chains on one RateLimiter: the cap *)

\* C32: with two or more call chains on one shared enabled limiter with
\* maxRequests >= 1, each calling waitIfNeeded() and then recordRequest(),
\* the number of timestamps inside the window never exceeds maxRequests.
C32_RateCap ==
    (chainPc # <<>> /\ config.enabled /\ config.maxRequests >= 1 /\ waited)
        => currentCount <= config.maxRequests

----------------------------------------------------------------------------
(* GraphQLClient.rawRequest, next to execute *)

\* rawRequest() is entered: `await this.rateLimiter.waitIfNeeded()`
rawRequestBegin ==
    /\ rpc \in {"off", "done"}
    /\ waitIfNeeded
    /\ rpc' = "rawWait"
    /\ attempt' = 0
    /\ lastError' = NoError
    /\ result' = NoResult
    /\ invocations' = 0
    /\ outcomes' = <<>>
    /\ waits' = <<>>
    /\ events' = <<"rawRequest", "wait">>
    /\ UNCHANGED <<rcfg, retryDue>>

\* the sleep of that waitIfNeeded() ends
rawRequestWaitResolve ==
    /\ rpc = "rawWait"
    /\ sleepResolve
    /\ UNCHANGED <<retryVars, execVars>>

\* rawRequest() goes on: recordRequest(), then client.request() is started
rawRequestSend ==
    /\ rpc = "rawWait" /\ pc = "ready"
    /\ recordRequest
    /\ rpc' = "rawPending"
    /\ events' = events \o <<"record", "transport">>
    /\ UNCHANGED <<rcfg, attempt, lastError, result, invocations, outcomes,
                   waits, retryDue>>

\* what rawRequest() settles with when client.request() rejects with raw:
\* { errors } is returned when the response carries errors, and the error
\* of handleError is thrown otherwise
rawRequestCatch(raw) ==
    IF Len(raw.errors) > 0
    THEN [status |-> "resolved", value |-> [kind |-> "errors", id |-> 1]]
    ELSE [status |-> "rejected", value |-> [kind |-> handleError(raw), id |-> 1]]

\* client.request() settles and rawRequest() returns or throws
rawRequestSettle ==
    /\ rpc = "rawPending"
    /\ \/ result' = Settled("value", 1)
       \/ \E raw \in RawFailures : result' = rawRequestCatch(raw)
    /\ rpc' = "done"
    /\ UNCHANGED <<limiterVars, rcfg, attempt, lastError, invocations,
                   outcomes, waits, execVars>>

ClientNext ==
    \/ executeBegin /\ UNCHANGED nonExecuteVars
    \/ executeWaitResolve /\ UNCHANGED nonExecuteVars
    \/ executeRequest /\ UNCHANGED nonExecuteVars
    \/ executeSettle /\ UNCHANGED nonExecuteVars
    \/ executeResume /\ UNCHANGED nonExecuteVars
    \/ executeGetStatus /\ UNCHANGED nonExecuteVars
    \/ executeTick /\ UNCHANGED nonExecuteVars
    \/ rawRequestBegin /\ UNCHANGED nonExecuteVars
    \/ rawRequestWaitResolve /\ UNCHANGED nonExecuteVars
    \/ rawRequestSend /\ UNCHANGED nonExecuteVars
    \/ rawRequestSettle /\ UNCHANGED nonExecuteVars

\* a client whose execute() and rawRequest() are called one after the other
SpecClient == ExecuteInit /\ [][ClientNext]_vars

\* the calls of the current operation come from rawRequest()
isRawRequest == Len(events) > 0 /\ events[1] = "rawRequest"

\* the number of recordRequest() calls of the current operation
recordCount == Cardinality({k \in 1..Len(events) : events[k] = "record"})

\* C33: execute calls recordRequest() exactly once immediately before each
\* transport invocation, retries included, and with an enabled limiter each
\* attempt raises the number of tracked timestamps inside the window by
\* one, so that k attempts within one window, starting from an empty one,
\* leave currentCount at k; rawRequest records exactly once, invokes the
\* transport exactly once and never retries.
C33_OneRecordPerAttempt ==
    /\ [](/\ \A k \in 1..Len(events) :
               /\ events[k] = "transport" => k > 1 /\ events[k - 1] = "record"
               /\ events[k] = "record" =>
                    k < Len(events) /\ events[k + 1] = "transport"
          /\ (~isRawRequest /\ rpc \notin {"off", "wait"}) =>
               /\ transportCount = invocations
               /\ recordCount = invocations
          /\ (~isRawRequest /\ config.enabled /\ calls = invocations
                /\ firstAt >= 0 /\ now - firstAt <= config.windowMs) =>
               currentCount = invocations
          /\ isRawRequest =>
               /\ invocations = 0
               /\ recordCount <= 1 /\ transportCount = recordCount
               /\ rpc \in {"rawPending", "done"} => recordCount = 1)
    /\ [][(config.enabled /\ Len(events') > Len(events) /\ Len(events) > 0)
            => Len(pruneOldRequests(requests', now)) = currentCount + 1]_vars

\* an execute() on an enabled limiter has made two attempts within one
\* window and both are tracked
C33_Witness ==
    /\ config.enabled
    /\ ~isRawRequest
    /\ invocations = 2
    /\ calls = 2
    /\ now - firstAt <= config.windowMs
    /\ events = <<"wait", "record", "transport", "record", "transport">>
    /\ currentCount = 2

----------------------------------------------------------------------------
(* Pagination: after a failed fetch *)

\* the fetcher call made last has rejected
lastFetchFailed ==
    /\ ~fetchInFlight
    /\ Len(thrown) > 0
    /\ thrown[Len(thrown)].call = Len(fetchCalls)

\* the pages but the last
EarlierPages == SubSeq(pages, 1, Len(pages) - 1)

\* C34: if the fetcher rejects during next(), the buffer, the buffer index,
\* the yielded count, hasMore and endCursor are as they were before; the
\* next() after it issues the fetch again with the same { first, after },
\* and the sequence goes on without skipping or repeating an item: in item
\* mode the items yielded are, in order, those of the pages that resolved,
\* none left out before a later page was fetched, and in page mode the
\* pages yielded are the non-empty pages that resolved.
C34_FailureKeepsState ==
    /\ [][thrown' # thrown =>
            UNCHANGED <<currentItems, currentIndex, totalReturned, hasMore,
                        endCursor>>]_vars
    /\ [][(mode # "off" /\ lastFetchFailed) =>
            /\ Len(fetchCalls') = Len(fetchCalls) + 1
            /\ fetchCalls'[Len(fetchCalls')] = fetchCalls[Len(fetchCalls)]
            /\ UNCHANGED <<results, doneSeen>>]_vars
    /\ [](mode = "item" =>
            /\ totalReturned = Len(results)
            /\ Len(results) <= Len(Flatten(pages))
            /\ results = SubSeq(Flatten(pages), 1, Len(results))
            /\ Len(pages) > 0 => Len(results) >= Len(Flatten(EarlierPages)))
    /\ [](mode = "page" => results = NonEmpty(pages))

\* item mode: the second fetch failed, was issued again with the same
\* params and resolved, and the items of both pages were yielded
C34_Witness ==
    /\ mode = "item"
    /\ Len(thrown) = 1
    /\ thrown[1].call = 2
    /\ Len(fetchCalls) = 3
    /\ fetchCalls[3] = fetchCalls[2]
    /\ fetchCalls[3].after # Undefined
    /\ Len(pages) = 2
    /\ results = Flatten(pages)
    /\ Len(results) = 2 * MaxPageItems

----------------------------------------------------------------------------
(* Pagination: several passes over one iterable *)

MaxPasses == 3   \* passes over one iterable

\* the options of an iterable that is iterated more than once
PassOptions == [pageSize : {Undefined}, maxItems : {Undefined, 1, 3}]

\* what a fetcher backed by the pages of `source` answers to a call with
\* this cursor: the first page without a cursor, the page after the one the
\* cursor belongs to with one, and an empty last page past the end
served(after) ==
    LET k == IF after = Undefined THEN 1 ELSE after - 100 + 1
    IN  IF k <= Len(source) THEN source[k]
        ELSE [items |-> <<>>, hasNextPage |-> FALSE, endCursor |-> Undefined]

\* the entry point is called once: one iterable over one fetcher
PassInit ==
    /\ mode \in {"item", "page"}
    /\ options \in PassOptions
    /\ currentItems = <<>>
    /\ currentIndex = 0
    /\ totalReturned = 0
    /\ hasMore = TRUE
    /\ endCursor = Undefined
    /\ fetchCalls = <<>>
    /\ pages = <<>>
    /\ results = <<>>
    /\ doneSeen = FALSE
    /\ extraNext = 0
    /\ thrown = <<>>
    /\ phase = "passes"
    /\ source \in FiniteSources
    /\ takeCount = 0
    /\ takeOptions = [pageSize |-> Undefined, maxItems |-> Undefined]
    /\ collected = <<>>
    /\ passes = <<>>
    /\ inPass = FALSE

\* what a pass finds when it starts: whether the source is exhausted
\* (hasNextPage = false was reached and nothing fetched is left to yield),
\* and how much was yielded and fetched before
passEntry ==
    [exhausted |-> ~hasMore /\ currentIndex >= Len(currentItems),
     yielded |-> Len(results),
     fetched |-> Len(fetchCalls)]

\* `for await` (in a caller's loop or in toArray()) calls
\* [Symbol.asyncIterator](), which returns the one iterator of the closure
asyncIterator ==
    /\ ~inPass
    /\ ~fetchInFlight
    /\ Len(passes) < MaxPasses
    /\ passes' = Append(passes, passEntry)
    /\ inPass' = TRUE
    /\ UNCHANGED <<pageVars, takeVars>>

\* the step that ends now is a next() returning done: true
returnsDone ==
    /\ results' = results
    /\ Len(fetchCalls') = Len(pages') + Len(thrown')

\* the loop calls next(); done: true ends the pass
passNext ==
    /\ inPass
    /\ iteratorNext
    /\ inPass' = ~returnsDone
    /\ UNCHANGED <<passes, takeVars>>

\* the fetcher answers the call of the item iterator by its cursor
passFetched ==
    /\ inPass
    /\ iteratorFetchedWith(served(fetchCalls[Len(fetchCalls)].after))
    /\ inPass' = ~returnsDone
    /\ UNCHANGED <<passes, takeVars>>

\* the loop calls next() of the page iterator
passPageNext ==
    /\ inPass
    /\ pageIteratorNext
    /\ inPass' = ~returnsDone
    /\ UNCHANGED <<passes, takeVars>>

\* the fetcher answers the call of the page iterator by its cursor
passPageFetched ==
    /\ inPass
    /\ pageIteratorFetchedWith(served(fetchCalls[Len(fetchCalls)].after))
    /\ inPass' = ~returnsDone
    /\ UNCHANGED <<passes, takeVars>>

\* the loop is left early (break, return, an exception of the loop body);
\* the iterator has no return() method
passBreak ==
    /\ inPass
    /\ ~fetchInFlight
    /\ inPass' = FALSE
    /\ UNCHANGED <<passes, pageVars, takeVars>>

PassNext ==
    \/ asyncIterator /\ UNCHANGED nonPassVars
    \/ passNext /\ UNCHANGED nonPassVars
    \/ passFetched /\ UNCHANGED nonPassVars
    \/ passPageNext /\ UNCHANGED nonPassVars
    \/ passPageFetched /\ UNCHANGED nonPassVars
    \/ passBreak /\ UNCHANGED nonPassVars

PassStart ==
    /\ LimiterOff /\ RetryOff /\ ExecOff /\ SharedOff /\ ClassifyOff
    /\ PassInit

SpecPasses == PassStart /\ [][PassNext]_vars

\* what had been yielded and fetched when pass i was over
passEnd(i) ==
    IF i < Len(passes)
    THEN [yielded |-> passes[i + 1].yielded,
          fetched |-> passes[i + 1].fetched]
    ELSE [yielded |-> Len(results), fetched |-> Len(fetchCalls)]

\* no value was yielded twice
YieldedOnce ==
    \A i, j \in 1..Len(results) : i # j => results[i] # results[j]

\* C35: every [Symbol.asyncIterator]() call on one iterable returns the
\* same iterator over the same state, so over any number of passes each
\* source item is yielded at most once in total, and a pass started after
\* the source was exhausted yields nothing and fetches nothing.
C35_OneIteratorPerIterable ==
    /\ [][Len(passes') > Len(passes) => UNCHANGED pageVars]_vars
    /\ [](phase = "passes" => YieldedOnce)
    /\ [](\A i \in 1..Len(passes) :
            passes[i].exhausted =>
                /\ passEnd(i).yielded = passes[i].yielded
                /\ passEnd(i).fetched = passes[i].fetched)

----------------------------------------------------------------------------
(* Pagination: fetches under maxItems *)

\* C36: with maxItems = N, one item-mode sequence, up to the next() that
\* returns done, calls the fetcher at most N times (never when N = 0),
\* whatever pages the fetcher returns, a fetcher that always answers
\* hasNextPage = true included.
C36_FetchesBoundedByMaxItems ==
    (mode = "item" /\ options.maxItems # Undefined /\ extraNext = 0) =>
        Len(fetchCalls) <= options.maxItems

\* maxItems = 3 against pages of one item each that all report
\* hasNextPage = true: three fetches, three items, then done
C36_Witness ==
    /\ mode = "item"
    /\ options.maxItems = 3
    /\ Len(fetchCalls) = 3
    /\ Len(pages) = 3
    /\ \A k \in 1..3 : Len(pages[k].items) = 1 /\ pages[k].hasNextPage
    /\ Len(results) = 3
    /\ doneSeen
    /\ extraNext = 0

----------------------------------------------------------------------------
(* retryWithBackoff: where the backoff waits are *)

\* C37: in every execution of retryWithBackoff the number of backoff waits
\* is the number of operation invocations minus one: a wait starts only
\* when an invocation has failed with a failure that shouldRetry accepts
\* and that was not the final attempt, and it is followed by the next
\* invocation; there is no wait before the first attempt, after a success,
\* after a failure that shouldRetry rejects, or after the final failed
\* attempt.
C37_WaitsBetweenAttempts ==
    /\ [](rpc \in {"pending", "done"} => Len(waits) = invocations - 1)
    /\ [](rpc \in {"call", "backoff"} => Len(waits) = invocations)
    /\ [](\A i \in 1..Len(waits) :
            /\ outcomes[i].status = "rejected"
            /\ Accepted(outcomes[i].value)
            /\ i <= rcfg.maxRetries)
    /\ [][waits' # waits =>
            /\ rpc = "pending" /\ rpc' = "backoff"
            /\ Len(waits') = Len(waits) + 1]_vars
    /\ [][rpc = "backoff" => rpc' = "call"]_vars

\* three accepted failures, a wait after each, and a success at the fourth
\* attempt
C37_Witness ==
    /\ rpc = "done"
    /\ rcfg.maxRetries = 3
    /\ invocations = 4
    /\ Len(waits) = 3
    /\ result.status = "resolved"
    /\ \A i \in 1..3 : outcomes[i].status = "rejected"

----------------------------------------------------------------------------
(* RateLimiter: what the observers leave alone *)

\* the timestamps of reqs that are inside the window at time t
InWindow(reqs, t) ==
    SelectSeq(reqs, LAMBDA x : x >= t - config.windowMs)

\* what the observers return at this instant
observed ==
    <<currentCount, remaining, isThrottling, isLimited, getDelayMs>>

\* C38: currentCount, remaining, isThrottling, isLimited, getDelayMs(),
\* getStatus() and waitIfNeeded() never append a timestamp and never remove
\* one that is still inside the window: only recordRequest() adds an entry
\* (exactly one, the current instant) and only reset() removes entries that
\* are inside the window, so an observer called again at the same instant
\* returns what it returned before.
C38_ObservationIsFree ==
    /\ [][(getStatus \/ waitIfNeeded) =>
            /\ Len(requests') <= Len(requests)
            /\ InWindow(requests', now) = InWindow(requests, now)
            /\ observed' = observed]_vars
    /\ [][Len(requests') > Len(requests) =>
            /\ calls' = calls + 1
            /\ requests' = Append(Pruned(now), now)]_vars
    /\ [][InWindow(requests', now) # InWindow(requests, now) =>
            \/ calls' = calls + 1
            \/ requests' = <<>> /\ wasReset']_vars

\* getStatus() and waitIfNeeded() were called on a window that holds a
\* stale and a fresh timestamp: the fresh one is kept
C38_Witness ==
    /\ config.enabled /\ ~wasReset
    /\ calls = 2
    /\ requests = <<lastAt>>
    /\ firstAt < now - config.windowMs
    /\ lastAt >= now - config.windowMs
    /\ pc = "ready"

----------------------------------------------------------------------------
(* RateLimiter: isLimited and isThrottling *)

\* C39: for an enabled limiter with maxRequests >= 1 and
\* 0 < throttleThreshold <= 1, in every reachable state isLimited implies
\* isThrottling, and with throttleThreshold = 1 the two are equal.
C39_LimitedImpliesThrottling ==
    (/\ config.enabled
     /\ config.maxRequests >= 1
     /\ ~RatGeq(Rat(0, 1), config.throttleThreshold)
     /\ RatGeq(Rat(1, 1), config.throttleThreshold))
        => /\ isLimited => isThrottling
           /\ RatGeq(config.throttleThreshold, Rat(1, 1)) =>
                (isThrottling <=> isLimited)

\* with throttleThreshold = 1 and maxRequests = 4, four requests are
\* tracked and the limiter is both limited and throttling
C39_Witness ==
    /\ config.enabled
    /\ config.throttleThreshold = Rat(1, 1)
    /\ config.maxRequests = 4
    /\ currentCount = 4
    /\ isLimited /\ isThrottling

====
